---- MODULE Spec2Model ----
(***************************************************************************)
(* Network diagnostic tool (darienrh/CAPSTONE): the orchestrator that      *)
(* connects to the devices, fans the scan out over a thread pool,          *)
(* aggregates the Problems, runs the fix phase and closes the sessions;    *)
(* the session driver that writes command lines to an interactive shell;   *)
(* and the fix phase that turns Problems into command lists.               *)
(*                                                                         *)
(* Two orchestrators are in the repository and both are modelled:          *)
(*   "refactored"  src/Capstone_AI_refactored/runner.py +                  *)
(*                 detection/problem_detector.py (connect first, then scan)*)
(*   "legacy"      src/AI_troubleshoot/runner.py (each worker connects)    *)
(*                                                                         *)
(* A device is named by its number: 1 stands for "R1".  A session          *)
(* (telnetlib.Telnet object) is named by the place of the call that        *)
(* opened it: i for the connect of device_names[i] in the scan phase,      *)
(* Len(device_names) + i for the temporary connect of device_names[i]      *)
(* while saving configurations.                                            *)
(***************************************************************************)
EXTENDS Integers, Sequences, FiniteSets, TLC

\* ------------------------------------------------------------------ bounds
\* Longest list of selected devices explored with every environment.
MaxSelected == 2
\* Length of the list of distinct devices used to load the worker pool.
MaxPool == 7

\* ------------------------------------------------------ program constants
\* min(6, ...) in scan_all_devices / run_diagnostics
PoolCap == 6

Categories == {"interfaces", "eigrp", "ospf"}

Devices == 1..MaxPool
\* Devices used in the short device lists: one EIGRP router, one OSPF router.
SmallDevices == {1, 4}

Min(a, b) == IF a < b THEN a ELSE b

Range(f) == {f[x] : x \in DOMAIN f}

Prefixes(s) == {SubSeq(s, 1, k) : k \in 0..Len(s)}

\* Every router takes the EIGRP checks.
is_eigrp_router_any(d) == TRUE

\* ConfigManager._is_eigrp_router / _is_ospf_router
is_eigrp_router(d) == d \in {1, 2, 3}
is_ospf_router(d) == d \in {4, 5, 6}

VARIABLES
  variant,          \* which orchestrator runs
  device_names,     \* final_target_list of main()
  noPort,           \* devices whose node has no console port (nodes.get(d) falsy)
  unreachable,      \* devices whose endpoint refuses or times out
  flaky,            \* devices on whose stream reads and writes may fault
  pcMain,           \* position of the main thread
  ci,               \* loop index of connect_to_devices / save_stable_configurations
  connections,      \* self.connections: device -> session
  connOrder,        \* key order of self.connections (dict insertion order)
  opened,           \* sessions opened so far
  closes,           \* session -> number of tn.close() calls close_device made on it
  tasks,            \* devices submitted to the executor, in submission order
  wpc,              \* position of each submitted task
  wfound,           \* each task's scan result (category -> Problem list)
  wseen,            \* each task's Problems as its checks found them (category -> list)
  wfault,           \* tasks whose scan raised
  lock,             \* holder of the Lock (0: free)
  detected_issues,  \* the aggregation map: category -> (device -> Problem list)
  scanRet,          \* how the scan call ended: "none", "returned", "raised"
  interrupted,      \* a KeyboardInterrupt was delivered to the main thread
  attempts          \* device -> connect_device calls made for it before and in the scan

runVars == <<variant, device_names, noPort, unreachable, flaky, pcMain, ci,
             connections, connOrder, opened, closes, tasks, wpc, wfound, wseen,
             wfault, lock, detected_issues, scanRet, interrupted, attempts>>

\* ---- one session driven by the session driver (telnet_utils and the copies
\* of its functions in the detection modules)
VARIABLES
  drvOp,            \* the driver function that was called
  drvCmds,          \* its commands / fixes argument
  drvPc,            \* statement the call is at
  drvI,             \* index of the write (reset) or of the list element (loop)
  drvDrain,         \* TRUE between tn.write and the tn.read_very_eager after it
  drvLog,           \* calls made on the stream so far: the line written, or ReadEager
  drvRet,           \* "none", or how the call ended
  shMode,           \* mode of the device's shell
  shPartial,        \* TRUE when the shell's input line holds typed characters
  shStart           \* <<shMode, shPartial>> when the call began

drvVars == <<drvOp, drvCmds, drvPc, drvI, drvDrain, drvLog, drvRet, shMode,
             shPartial, shStart>>

\* ---- the fix phase (FixApplier.apply_all_fixes)
VARIABLES
  fxIssues,         \* detected_issues: category -> <<[device, problems]>> in key order
  fxConn,           \* devices that have a session in device_connections
  auto_approve_all, \* fix mode "all"
  fxPc,             \* "idle", "fixing" or "returned"
  fxK,              \* Problems handled so far
  fxLog,            \* per handled Problem: commands yielded, prompt, answer, lines written
  fix_results       \* self.fix_results

fixVars == <<fxIssues, fxConn, auto_approve_all, fxPc, fxK, fxLog, fix_results>>

\* ---- the detection trees on one device, one remediation, a second scan
VARIABLES
  dfDevice,         \* the device scanned (1 runs EIGRP, 4 runs OSPF)
  dfBaseline,       \* its entry in the parsed stable configuration
  dfRunning,        \* its running configuration
  dfPeer,           \* its neighbor: adjacency up, or down with what the debug log shows
  dfOutput,         \* what the collection commands drain
  dfPc,             \* "idle", "start", "scanned", "fixed" or "rescanned"
  dfIssues,         \* all_issues of the first scan
  dfFixed,          \* the Problem whose commands were applied
  dfAgain,          \* all_issues of the scan after the fix
  dfLog,            \* what the last scan wrote, waited for and looked up, in order
  dfLegacy          \* the same for src/AI_troubleshoot's troubleshoot_eigrp on the device

difVars == <<dfDevice, dfBaseline, dfRunning, dfPeer, dfOutput, dfPc, dfIssues,
             dfFixed, dfAgain, dfLog, dfLegacy>>

\* ---- one ConfigManager, its lookups and the checks that read one value
VARIABLES
  cmStore,          \* the stable snapshot on storage: whether a file exists, its devices
  baseline_cache,   \* self.baseline_cache
  cmCall,           \* the last call: operation, device, what it returned
  cmPrev            \* the call before it, since the snapshot was last saved

cmVars == <<cmStore, baseline_cache, cmCall, cmPrev>>

\* What the orchestrator run, a driver call and the fix phase leave alone.
offRun == <<drvVars, fixVars, difVars, cmVars>>
offDrv == <<runVars, fixVars, difVars, cmVars>>
offFix == <<runVars, drvVars, difVars, cmVars>>

vars == <<runVars, drvVars, fixVars, difVars, cmVars>>


\* ------------------------------------------------- the devices' live state
\* What a complete scan of a device finds, per category: the drift of the
\* live configuration from the baseline.  Devices 2 and 5 have no interface
\* drift; EIGRP routers have two EIGRP Problems, OSPF routers one.
LiveProblems(d, c) ==
  CASE c = "interfaces" ->
         IF d \in {2, 5} THEN <<>>
         ELSE << [type |-> "shutdown", interface |-> "Ethernet0/0"] >>
    [] c = "eigrp" ->
         IF is_eigrp_router(d)
         THEN << [type |-> "non-default k-values", expected |-> "0 1 0 1 0 0"],
                 [type |-> "passive interface", interface |-> "Ethernet0/1"] >>
         ELSE <<>>
    [] OTHER ->
         IF is_ospf_router(d)
         THEN << [type |-> "unexpected stub area", area |-> "1"] >>
         ELSE <<>>

\* What one scan of a category can return.  On a sound stream it is the
\* full list; on a faulting stream a collection command may return None or
\* raise, which ends the category's checks early (a prefix of the list, or
\* nothing).  get_router_type gates the protocol categories.
Observed(d, c) ==
  IF d \in flaky THEN Prefixes(LiveProblems(d, c)) ELSE {LiveProblems(d, c)}

\* ProblemDetector.scan_device: every category's check runs inside its own
\* try/except, so the result is always a dict of three lists.
scan_device(d) ==
  {r \in [Categories -> UNION {Observed(d, c) : c \in Categories}] :
     \A c \in Categories : r[c] \in Observed(d, c)}

EmptyFound == [c \in Categories |-> <<>>]
EmptyIssues == [c \in Categories |-> <<>>]

\* for category, problems in result.items(): if problems:
\*     detected_issues[category][device_name] = problems
RecordProblems(issues, d, result) ==
  [c \in Categories |->
     IF result[c] # <<>> THEN (d :> result[c]) @@ issues[c] ELSE issues[c]]

\* A pool as wide as the device list.
max_workers_uncapped(n) == n

\* max_workers = min(6, len(...))
max_workers(n) == Min(PoolCap, n)

\* Tasks a pool thread is executing.
Running == {w \in 1..Len(tasks) : wpc[w] \notin {"queued", "done"}}

\* Waiting for the first future only (return_when=FIRST_COMPLETED).
WaitFirst == \E w \in 1..Len(tasks) : wpc[w] = "done"

\* concurrent.futures.wait(futures) / as_completed(futures) and the
\* executor's shutdown(wait=True) on leaving the with block.
WaitAll == \A w \in 1..Len(tasks) : wpc[w] = "done"

N == Len(device_names)
SessIds == 1..(2 * N)
\* The device a session is connected to.
SessDev(id) == device_names[((id - 1) % N) + 1]
\* The session a task works on.
TaskSess(w) ==
  IF variant = "legacy" THEN w ELSE connections[tasks[w]]

\* close_device(tn): tn.write(b'end\r\n'); tn.close() inside one try whose
\* except clause passes: a faulting write skips the close.
\* A Telnet object the tool drops without this call is left to the
\* interpreter's finalizer, which the language does not promise to run; the
\* model counts the tool's own closes only.
close_device_outcomes(id) ==
  IF SessDev(id) \in flaky THEN {TRUE, FALSE} ELSE {TRUE}

\* No driver call is under observation.
DrvIdle ==
  /\ drvOp = "none"
  /\ drvCmds = <<>>
  /\ drvPc = "done"
  /\ drvI = 0
  /\ drvDrain = FALSE
  /\ drvLog = <<>>
  /\ drvRet = "none"
  /\ shMode = "privileged"
  /\ shPartial = FALSE
  /\ shStart = <<"privileged", FALSE>>

\* No fix phase is under observation.
FixIdle ==
  /\ fxIssues = [c \in Categories |-> <<>>]
  /\ fxConn = {}
  /\ auto_approve_all = FALSE
  /\ fxPc = "idle"
  /\ fxK = 0
  /\ fxLog = <<>>
  /\ fix_results = <<>>

\* Collection steps of a scan: interface summary, running configuration,
\* per-interface detail, neighbor table.
Steps == {"summary", "config", "detail", "neighbors"}

\* Every read drains the whole output of its command.
FullOutput == [s \in Steps |-> "full"]

\* No detection tree is under observation.
DifIdle ==
  /\ dfDevice = 1
  /\ dfBaseline = <<>>
  /\ dfRunning = <<>>
  /\ dfPeer = "up"
  /\ dfOutput = FullOutput
  /\ dfPc = "idle"
  /\ dfIssues = {}
  /\ dfFixed = <<>>
  /\ dfAgain = {}
  /\ dfLog = <<>>
  /\ dfLegacy = <<>>

CmIdle ==
  /\ cmStore = [exists |-> FALSE, devices |-> <<>>]
  /\ baseline_cache = <<>>
  /\ cmCall = [op |-> "idle", device |-> 1]
  /\ cmPrev = [op |-> "idle", device |-> 1]

\* ------------------------------------------------------------------- Init
\* Lists of selected devices: main() appends one name per comma-separated
\* request, so a name can be selected twice.
SmallLists ==
  UNION {[1..n -> SmallDevices] : n \in 1..MaxSelected}
PoolList == [i \in 1..MaxPool |-> i]

InitRun ==
  /\ variant \in {"refactored", "legacy"}
  /\ \/ /\ device_names \in SmallLists
        /\ noPort \in {{}, {4}}
        /\ unreachable \in {{}, {1}, SmallDevices}
        /\ flaky \in {{}, {1}}
     \/ \* the pool under load: more devices than pool threads
        /\ device_names = PoolList
        /\ noPort = {}
        /\ unreachable = IF variant = "legacy" THEN Devices \ {1, 2} ELSE {}
        /\ flaky = {}
  /\ pcMain = IF variant = "refactored" THEN "connect" ELSE "scan_start"
  /\ ci = 1
  /\ connections = <<>>
  /\ connOrder = <<>>
  /\ opened = {}
  /\ closes = [id \in 1..(2 * MaxPool) |-> 0]
  /\ tasks = <<>>
  /\ wpc = <<>>
  /\ wfound = <<>>
  /\ wseen = <<>>
  /\ wfault = {}
  /\ lock = 0
  /\ detected_issues = EmptyIssues
  /\ scanRet = "none"
  /\ interrupted = FALSE
  /\ attempts = [d \in Devices |-> 0]
  /\ DrvIdle
  /\ FixIdle
  /\ DifIdle
  /\ CmIdle

envVars == <<variant, device_names, noPort, unreachable, flaky>>

\* telnet_utils.connect_device: one telnetlib.Telnet(...) call inside the
\* try; except Exception: return None.  Its callers call it once.
connect_device_calls(d) == 1

\* connections[d] = tn, keeping the dict's key order.
Register(d, id) ==
  /\ connections' = (d :> id) @@ connections
  /\ connOrder' = IF d \in Range(connOrder) THEN connOrder
                  ELSE Append(connOrder, d)

\* ------------------------------------------------- refactored: connecting
\* One iteration of DiagnosticRunner.connect_to_devices.
connect_to_devices ==
  /\ pcMain = "connect"
  /\ ci <= N
  /\ LET d == device_names[ci] IN
       /\ attempts' = IF d \in noPort THEN attempts
                      ELSE [attempts EXCEPT ![d] = @ + connect_device_calls(d)]
       /\ IF d \in noPort \/ d \in unreachable
          THEN UNCHANGED <<connections, connOrder, opened>>
          ELSE /\ opened' = opened \cup {ci}
               /\ Register(d, ci)
  /\ ci' = ci + 1
  /\ UNCHANGED <<offRun, envVars, pcMain, closes, tasks, wpc, wfound, wseen, wfault, lock,
                 detected_issues, scanRet, interrupted>>

\* ------------------------------------------------------ starting the scan
ReadyToScan ==
  IF variant = "refactored" THEN pcMain = "connect" /\ ci > N
  ELSE pcMain = "scan_start"

\* What the scan is given: the connections dict (refactored) or the list of
\* selected names (legacy).
ScanInput == IF variant = "refactored" THEN connOrder ELSE device_names

\* ProblemDetector.scan_all_devices takes the sequential branch for a
\* single connection; the legacy run_diagnostics always uses the pool.
UseSequential ==
  variant = "refactored" /\ Len(ScanInput) = 1

\* ThreadPoolExecutor(max_workers=...) raises ValueError unless
\* max_workers > 0; nothing in run_diagnostics or main() catches it.
scan_all_devices_raises ==
  /\ ReadyToScan
  /\ ~UseSequential
  /\ max_workers(Len(ScanInput)) <= 0
  /\ scanRet' = "raised"
  /\ pcMain' = "exiting"
  /\ UNCHANGED <<offRun, attempts, envVars, ci, connections, connOrder, opened, closes, tasks,
                 wpc, wfound, wseen, wfault, lock, detected_issues, interrupted>>

\* Where a task starts: the legacy worker connects first.
TaskEntry == IF variant = "legacy" THEN "connect" ELSE "scan"

\* The parallel branch: one task per entry, submitted in order.
scan_all_devices_submit ==
  /\ ReadyToScan
  /\ ~UseSequential
  /\ max_workers(Len(ScanInput)) > 0
  /\ tasks' = ScanInput
  /\ wpc' = [w \in 1..Len(ScanInput) |->
               IF w <= max_workers(Len(ScanInput)) THEN TaskEntry ELSE "queued"]
  /\ wfound' = [w \in 1..Len(ScanInput) |-> EmptyFound]
  /\ wseen' = [w \in 1..Len(ScanInput) |-> EmptyFound]
  /\ pcMain' = "scanning"
  /\ UNCHANGED <<offRun, attempts, envVars, ci, connections, connOrder, opened, closes, wfault,
                 lock, detected_issues, scanRet, interrupted>>

\* The sequential branch: scan_device and the update of the map, in the
\* main thread, without the lock.
scan_all_devices_sequential ==
  /\ ReadyToScan
  /\ UseSequential
  /\ \E r \in scan_device(ScanInput[1]) :
       /\ tasks' = ScanInput
       /\ wpc' = <<"done">>
       /\ wfound' = <<r>>
       /\ wseen' = <<r>>
       /\ detected_issues' = RecordProblems(detected_issues, ScanInput[1], r)
  /\ scanRet' = "returned"
  /\ pcMain' = "scanned"
  /\ UNCHANGED <<offRun, attempts, envVars, ci, connections, connOrder, opened, closes, wfault,
                 lock, interrupted>>

\* ------------------------------------------------------------ pool threads
\* executor.submit starts a pool thread per task until max_workers threads
\* exist; the later tasks wait in the queue.  A thread that finishes a task
\* takes the next queued one (FIFO) at once.
TaskDone(w) ==
  LET p == [wpc EXCEPT ![w] = "done"]
      queued == {v \in DOMAIN p : p[v] = "queued"}
  IN IF queued = {} THEN p
     ELSE [p EXCEPT ![CHOOSE v \in queued : \A u \in queued : v <= u] = TaskEntry]

\* legacy scan_single_device, lines 241-247: no port or no connection ends
\* the task; otherwise the worker holds a new session.
scan_single_device_connect(w) ==
  /\ variant = "legacy"
  /\ wpc[w] = "connect"
  /\ attempts' = IF tasks[w] \in noPort THEN attempts
                 ELSE [attempts EXCEPT ![tasks[w]] = @ + connect_device_calls(tasks[w])]
  /\ IF tasks[w] \in noPort \/ tasks[w] \in unreachable
     THEN /\ wpc' = TaskDone(w)
          /\ UNCHANGED opened
     ELSE /\ wpc' = [wpc EXCEPT ![w] = "reg_wait"]
          /\ opened' = opened \cup {w}
  /\ UNCHANGED <<offRun, envVars, pcMain, ci, connections, connOrder, closes, tasks,
                 wfound, wseen, wfault, lock, detected_issues, scanRet, interrupted>>

\* with lock: (entering)
AcquireLock(w) ==
  /\ wpc[w] \in {"reg_wait", "agg_wait"}
  /\ lock = 0
  /\ lock' = w
  /\ wpc' = [wpc EXCEPT ![w] = IF wpc[w] = "reg_wait" THEN "reg_locked"
                                ELSE "agg_locked"]
  /\ UNCHANGED <<offRun, attempts, envVars, pcMain, ci, connections, connOrder, opened, closes,
                 tasks, wfound, wseen, wfault, detected_issues, scanRet, interrupted>>

\* legacy: with lock: self.connections[device_name] = tn
scan_single_device_register(w) ==
  /\ wpc[w] = "reg_locked"
  /\ lock = w
  /\ Register(tasks[w], w)
  /\ lock' = 0
  /\ wpc' = [wpc EXCEPT ![w] = "scan"]
  /\ UNCHANGED <<offRun, attempts, envVars, pcMain, ci, opened, closes, tasks, wfound, wseen, wfault,
                 detected_issues, scanRet, interrupted>>

\* Order of the categories in scan_device / scan_single_device.
CategoryOrder == <<"interfaces", "eigrp", "ospf">>

\* What a category's troubleshoot_* call returns, given the Problems its
\* checks found.  refactored: the list.  legacy troubleshoot_eigrp: the
\* list, or "return [], []" when the neighbor query that follows the checks
\* gets no output (a faulting stream).
troubleshoot_returns(d, c, found) ==
  IF variant = "legacy" /\ c = "eigrp" /\ d \in flaky
  THEN {found, <<>>}
  ELSE {found}

\* The scan of one device by its worker.  refactored: scan_device never
\* raises.  legacy: the three troubleshoot_* calls share one try, so an
\* exception in any of them (on a faulting stream) discards the device's
\* result: except Exception: pass.
WorkerScan(w) ==
  /\ wpc[w] = "scan"
  /\ \E seen \in scan_device(tasks[w]) :
       \E r \in [Categories -> UNION {Observed(tasks[w], c) : c \in Categories}] :
         /\ \A c \in Categories : r[c] \in troubleshoot_returns(tasks[w], c, seen[c])
         /\ wseen' = [wseen EXCEPT ![w] = seen]
         /\ wfound' = [wfound EXCEPT ![w] = r]
         /\ wpc' = [wpc EXCEPT ![w] = "agg_wait"]
  /\ UNCHANGED <<offRun, attempts, envVars, pcMain, ci, connections, connOrder, opened, closes,
                 tasks, wfault, lock, detected_issues, scanRet, interrupted>>

\* The categories before position k of the order ran to their end and found
\* their Problems; the call at position k raised.
WorkerScanRaises(w) ==
  /\ variant = "legacy"
  /\ wpc[w] = "scan"
  /\ tasks[w] \in flaky
  /\ \E k \in 1..Len(CategoryOrder) :
       wseen' = [wseen EXCEPT ![w] =
                   [c \in Categories |->
                      IF \E j \in 1..(k - 1) : CategoryOrder[j] = c
                      THEN LiveProblems(tasks[w], c) ELSE <<>>]]
  /\ wfault' = wfault \cup {w}
  /\ wpc' = TaskDone(w)
  /\ UNCHANGED <<offRun, attempts, envVars, pcMain, ci, connections, connOrder, opened, closes,
                 tasks, wfound, lock, detected_issues, scanRet, interrupted>>

\* with lock: for category, problems in ...: detected_issues[category][device] = problems
Aggregate(w) ==
  /\ wpc[w] = "agg_locked"
  /\ lock = w
  /\ detected_issues' = RecordProblems(detected_issues, tasks[w], wfound[w])
  /\ lock' = 0
  /\ wpc' = TaskDone(w)
  /\ UNCHANGED <<offRun, attempts, envVars, pcMain, ci, connections, connOrder, opened, closes,
                 tasks, wfound, wseen, wfault, scanRet, interrupted>>

\* The main thread leaves the with block once every future is done.  A
\* KeyboardInterrupt received meanwhile propagates from there.
scan_returns ==
  /\ pcMain = "scanning"
  /\ WaitAll
  /\ IF interrupted
     THEN /\ pcMain' = "exiting"
          /\ UNCHANGED scanRet
     ELSE /\ pcMain' = "scanned"
          /\ scanRet' = "returned"
  /\ UNCHANGED <<offRun, attempts, envVars, ci, connections, connOrder, opened, closes, tasks,
                 wpc, wfound, wseen, wfault, lock, detected_issues, interrupted>>

\* ------------------------------------------------------- after the scan
\* main(): print the summary, offer the fix menu.  The fix phase opens and
\* closes no session (it is modelled on its own below).
fix_menu ==
  /\ pcMain = "scanned"
  /\ pcMain' = "save_ask"
  /\ UNCHANGED <<offRun, attempts, envVars, ci, connections, connOrder, opened, closes, tasks,
                 wpc, wfound, wseen, wfault, lock, detected_issues, scanRet,
                 interrupted>>

\* Confirm.ask("Save stable configurations of all routers now?").  The
\* operator may answer long after the scan: endpoints that were down then
\* may be up by now.
save_ask ==
  /\ pcMain = "save_ask"
  /\ \E yes \in BOOLEAN :
       pcMain' = IF yes THEN "save" ELSE "exiting"
  /\ unreachable' \in {unreachable, {}}
  /\ ci' = 1
  /\ UNCHANGED <<offRun, attempts, variant, device_names, noPort, flaky, connections, connOrder,
                 opened, closes, tasks, wpc, wfound, wseen, wfault, lock,
                 detected_issues, scanRet, interrupted>>

\* One iteration of save_stable_configurations up to get_running_config:
\* tn = self.connections.get(device_name) or connect_device(console_port)
save_stable_configurations ==
  /\ pcMain = "save"
  /\ ci <= N
  /\ LET d == device_names[ci] IN
       IF d \in noPort \/ d \in DOMAIN connections \/ d \in unreachable
       THEN /\ ci' = ci + 1
            /\ UNCHANGED <<pcMain, opened>>
       ELSE /\ opened' = opened \cup {N + ci}
            /\ pcMain' = "save_close"
            /\ UNCHANGED ci
  /\ UNCHANGED <<offRun, attempts, envVars, connections, connOrder, closes, tasks, wpc, wfound, wseen,
                 wfault, lock, detected_issues, scanRet, interrupted>>

\* if device_name not in self.connections: close_device(tn)
save_close_temporary ==
  /\ pcMain = "save_close"
  /\ \E ok \in close_device_outcomes(N + ci) :
       closes' = [closes EXCEPT ![N + ci] = IF ok THEN @ + 1 ELSE @]
  /\ ci' = ci + 1
  /\ pcMain' = "save"
  /\ UNCHANGED <<offRun, attempts, envVars, connections, connOrder, opened, tasks, wpc, wfound, wseen,
                 wfault, lock, detected_issues, scanRet, interrupted>>

save_done ==
  /\ pcMain = "save"
  /\ ci > N
  /\ pcMain' = "exiting"
  /\ UNCHANGED <<offRun, attempts, envVars, ci, connections, connOrder, opened, closes, tasks,
                 wpc, wfound, wseen, wfault, lock, detected_issues, scanRet,
                 interrupted>>

\* KeyboardInterrupt in the main thread: except KeyboardInterrupt:
\* sys.exit(0).  Inside the executor's with block the exception waits for
\* the pool to drain.
KeyboardInterrupt ==
  /\ ~interrupted
  /\ pcMain \notin {"exiting", "exited"}
  /\ interrupted' = TRUE
  /\ pcMain' = IF pcMain = "scanning" THEN pcMain ELSE "exiting"
  /\ UNCHANGED <<offRun, attempts, envVars, ci, connections, connOrder, opened, closes, tasks,
                 wpc, wfound, wseen, wfault, lock, detected_issues, scanRet>>

\* atexit: cleanup_all_connections: close_device on every value of
\* self.connections, then clear().
cleanup_all_connections ==
  /\ pcMain = "exiting"
  /\ \E failed \in SUBSET {id \in Range(connections) : SessDev(id) \in flaky} :
       closes' = [id \in DOMAIN closes |->
                    IF id \in Range(connections) \ failed
                    THEN closes[id] + 1 ELSE closes[id]]
  /\ connections' = <<>>
  /\ connOrder' = <<>>
  /\ pcMain' = "exited"
  /\ UNCHANGED <<offRun, attempts, envVars, ci, opened, tasks, wpc, wfound, wseen, wfault, lock,
                 detected_issues, scanRet, interrupted>>

NextRun ==
  \/ connect_to_devices
  \/ scan_all_devices_raises
  \/ scan_all_devices_submit
  \/ scan_all_devices_sequential
  \/ \E w \in 1..Len(tasks) : scan_single_device_connect(w)
  \/ \E w \in 1..Len(tasks) : AcquireLock(w)
  \/ \E w \in 1..Len(tasks) : scan_single_device_register(w)
  \/ \E w \in 1..Len(tasks) : WorkerScan(w)
  \/ \E w \in 1..Len(tasks) : WorkerScanRaises(w)
  \/ \E w \in 1..Len(tasks) : Aggregate(w)
  \/ scan_returns
  \/ fix_menu
  \/ save_ask
  \/ save_stable_configurations
  \/ save_close_temporary
  \/ save_done
  \/ KeyboardInterrupt
  \/ cleanup_all_connections

Spec == InitRun /\ [][NextRun]_vars

\* ------------------------------------------------------------ claims C1-C6
\* Tasks that scan the same device as w (more than one when a name was
\* selected twice in the legacy runner).
SameDevice(w) == {v \in 1..Len(tasks) : tasks[v] = tasks[w]}

\* C1: when the scan call has returned, every submitted device scan has run
\* to its end, and every scan that did not raise has its non-empty Problem
\* lists in the aggregation map under its device (exactly its own list when
\* no other task scanned that device), whatever happened to the other
\* devices; and a scan that raised never makes the scan call raise.
C1_FaultIsolation ==
  /\ wfault # {} => scanRet # "raised"
  /\ scanRet = "returned" =>
       \A w \in 1..Len(tasks) :
         /\ wpc[w] = "done"
         /\ w \notin wfault =>
              \A c \in Categories :
                wfound[w][c] # <<>> =>
                  /\ tasks[w] \in DOMAIN detected_issues[c]
                  /\ SameDevice(w) = {w} =>
                       detected_issues[c][tasks[w]] = wfound[w][c]

\* One device's scan raised, another device's Problems are in the map.
C1_Witness ==
  /\ scanRet = "returned"
  /\ \E w \in wfault : \E v \in 1..Len(tasks) :
       /\ tasks[v] # tasks[w]
       /\ wfound[v]["ospf"] # <<>>
       /\ detected_issues["ospf"][tasks[v]] = wfound[v]["ospf"]

\* C2: run_diagnostics never raises, whatever the connection outcomes.
C2_RunNeverRaises == scanRet # "raised"

\* C3: at process exit every session that was opened has been closed
\* exactly once by the tool (close_device reached tn.close() once).
C3_ClosedExactlyOnce ==
  pcMain = "exited" => \A id \in opened : closes[id] = 1

\* Sessions that are open (opened and not closed) on device d.
OpenOn(d) == {id \in opened : closes[id] = 0 /\ SessDev(id) = d}

\* Tasks that hold a session: every running task of the refactored scan,
\* and a legacy task from its successful connect on.
HoldsSession(w) ==
  /\ wpc[w] \notin {"queued", "done"}
  /\ variant = "legacy" => wpc[w] # "connect"

\* C4: during a parallel scan each running worker uses one open session of
\* its own device, no session is used by two workers, and no device has
\* more than one session open.
C4_OneSessionPerDevice ==
  pcMain = "scanning" =>
    /\ \A w \in 1..Len(tasks) :
         HoldsSession(w) =>
           /\ TaskSess(w) \in opened
           /\ closes[TaskSess(w)] = 0
           /\ SessDev(TaskSess(w)) = tasks[w]
    /\ \A v, w \in 1..Len(tasks) :
         (v # w /\ HoldsSession(v) /\ HoldsSession(w)) =>
           TaskSess(v) # TaskSess(w)
    /\ \A d \in Devices : Cardinality(OpenOn(d)) <= 1

\* C5: a worker is inside a with-lock block only as the holder of the lock,
\* and the returned map holds, for every scan that found a non-empty list
\* for a category, exactly that list under the scanned device.
C5_NoLostUpdate ==
  /\ \A w \in 1..Len(tasks) :
       wpc[w] \in {"reg_locked", "agg_locked"} => lock = w
  /\ scanRet = "returned" =>
       \A w \in 1..Len(tasks) : \A c \in Categories :
         (w \notin wfault /\ wfound[w][c] # <<>>) =>
           /\ tasks[w] \in DOMAIN detected_issues[c]
           /\ detected_issues[c][tasks[w]] = wfound[w][c]

\* C6: never more than min(6, N) device scans execute at the same time.
C6_PoolBound == Cardinality(Running) <= Min(6, Len(tasks))

\* The pool is full while a seventh device waits in the queue.
C6_Witness ==
  /\ Cardinality(Running) = 6
  /\ \E w \in 1..Len(tasks) : wpc[w] = "queued"

\* ================================================================ driver
\* The session driver: clear_line_and_reset and the functions that apply a
\* command list (telnet_utils.apply_config_commands, eigrp_tree.
\* apply_eigrp_fixes, ospf_tree.apply_ospf_fixes of the refactored tool, and
\* apply_eigrp_fixes of src/AI_troubleshoot/eigrp_tree.py).  One call is
\* followed statement by statement; every tn.write and tn.read_very_eager
\* can fault.

\* Longest command list given to an apply function.
MaxCmds == 3

\* The orchestrator is not running.
RunIdle ==
  /\ variant = "refactored"
  /\ device_names = <<1>>
  /\ noPort = {}
  /\ unreachable = {}
  /\ flaky = {}
  /\ pcMain = "exited"
  /\ ci = 1
  /\ connections = <<>>
  /\ connOrder = <<>>
  /\ opened = {}
  /\ closes = [id \in 1..(2 * MaxPool) |-> 0]
  /\ tasks = <<>>
  /\ wpc = <<>>
  /\ wfound = <<>>
  /\ wseen = <<>>
  /\ wfault = {}
  /\ lock = 0
  /\ detected_issues = EmptyIssues
  /\ scanRet = "none"
  /\ interrupted = FALSE
  /\ attempts = [d \in Devices |-> 0]

\* b'\x03'
CtrlC == "^C"
\* A tn.read_very_eager() call in the log.
ReadEager == "<read_very_eager>"

\* Lines the fix engine puts in command lists; the first is the annotation
\* get_eigrp_fix_commands appends to the AS-mismatch commands.
NoteLine == "# NOTE: Network statements will need to be re-added"
CmdLines == {NoteLine, "router eigrp 1", "no eigrp stub"}

\* cmd.startswith('#')
startswith_hash(cmd) == Len(cmd) > 0 /\ SubSeq(cmd, 1, 1) = "#"

ApplyOps == {"apply_config_commands", "apply_eigrp_fixes", "apply_ospf_fixes",
             "legacy_apply_eigrp_fixes"}
DriverOps == {"clear_line_and_reset"} \cup ApplyOps

\* The loop of the refactored functions has
\*   if cmd.startswith('#'): continue
\* the loop of src/AI_troubleshoot/eigrp_tree.py writes every element.
SkipsComments(op) == op # "legacy_apply_eigrp_fixes"

\* apply_ospf_fixes and the legacy apply_eigrp_fixes end with 'write memory'.
WritesMemory(op) == op \in {"apply_ospf_fixes", "legacy_apply_eigrp_fixes"}

\* clear_line_and_reset without the interrupt.
ResetScript_no_interrupt == <<"end", "enable", "">>

\* The writes of clear_line_and_reset, in statement order.
ResetScript == <<CtrlC, "end", "enable", "">>

\* ---- the device's shell (Cisco IOS exec, no enable secret: connect_device
\* sends 'enable' and a blank line and the tool then uses privileged commands)
ShellModes == {"user", "privileged", "global-config", "interface-config",
               "router-config"}
ConfigModes == {"global-config", "interface-config", "router-config"}

\* Mode after the shell executes a complete line typed on an empty input line.
ShellExec(mode, line) ==
  CASE line = "end" -> IF mode \in ConfigModes THEN "privileged" ELSE mode
    [] line = "enable" -> IF mode = "user" THEN "privileged" ELSE mode
    [] line = "configure terminal" ->
         IF mode = "privileged" THEN "global-config" ELSE mode
    [] line = "router eigrp 1" ->
         IF mode \in ConfigModes THEN "router-config" ELSE mode
    [] OTHER -> mode

\* Mode after the shell receives what one tn.write sends.  The interrupt
\* discards the input line and leaves configuration mode; a line terminator
\* executes the input line, which is not a command when typed characters
\* precede the written text.
ShellMode(mode, partial, data) ==
  IF data = CtrlC THEN (IF mode \in ConfigModes THEN "privileged" ELSE mode)
  ELSE IF partial THEN mode
  ELSE ShellExec(mode, data)

\* ---- the call
\* Line the statement at (pc, i) writes.
DrvLine(pc, i) ==
  CASE pc = "reset" -> ResetScript[i]
    [] pc = "configure" -> "configure terminal"
    [] pc = "loop" -> drvCmds[i]
    [] pc = "end" -> "end"
    [] pc = "write_memory" -> "write memory"

\* Statement after the one at (pc, i) has completed: <<pc, i>>.
DrvAfter(pc, i) ==
  CASE pc = "reset" ->
         IF i < Len(ResetScript) THEN <<"reset", i + 1>>
         ELSE IF drvOp = "clear_line_and_reset" THEN <<"done", 0>>
         ELSE <<"configure", 0>>
    [] pc = "configure" ->
         IF Len(drvCmds) > 0 THEN <<"loop", 1>> ELSE <<"end", 0>>
    [] pc = "loop" ->
         IF i < Len(drvCmds) THEN <<"loop", i + 1>> ELSE <<"end", 0>>
    [] pc = "end" ->
         IF WritesMemory(drvOp) THEN <<"write_memory", 0>> ELSE <<"done", 0>>
    [] pc = "write_memory" -> <<"done", 0>>

CmdLists == UNION {[1..n -> CmdLines] : n \in 0..MaxCmds}

InitDrv ==
  /\ RunIdle
  /\ FixIdle
  /\ DifIdle
  /\ CmIdle
  /\ drvOp \in DriverOps
  /\ drvCmds \in (IF drvOp = "clear_line_and_reset" THEN {<<>>} ELSE CmdLists)
  /\ drvPc = "reset"
  /\ drvI = 1
  /\ drvDrain = FALSE
  /\ drvLog = <<>>
  /\ drvRet = "none"
  /\ shMode \in ShellModes
  /\ shPartial \in BOOLEAN
  /\ shStart = <<shMode, shPartial>>

\* tn.write(...)
DrvWrite ==
  /\ drvPc # "done"
  /\ ~drvDrain
  /\ ~(drvPc = "loop" /\ SkipsComments(drvOp) /\ startswith_hash(drvCmds[drvI]))
  /\ LET line == DrvLine(drvPc, drvI) IN
       /\ drvLog' = Append(drvLog, line)
       /\ shMode' = ShellMode(shMode, shPartial, line)
       /\ shPartial' = FALSE
  /\ drvDrain' = TRUE
  /\ UNCHANGED <<offDrv, shStart, drvOp, drvCmds, drvPc, drvI, drvRet>>

\* time.sleep(...); tn.read_very_eager(); then on to the next statement, or
\* return (True from an apply function).
DrvDrain ==
  /\ drvPc # "done"
  /\ drvDrain
  /\ drvLog' = Append(drvLog, ReadEager)
  /\ drvDrain' = FALSE
  /\ drvPc' = DrvAfter(drvPc, drvI)[1]
  /\ drvI' = DrvAfter(drvPc, drvI)[2]
  /\ drvRet' = IF DrvAfter(drvPc, drvI)[1] # "done" THEN drvRet
               ELSE IF drvOp = "clear_line_and_reset" THEN "returned"
               ELSE "True"
  /\ UNCHANGED <<offDrv, shStart, drvOp, drvCmds, shMode, shPartial>>

\* if cmd.startswith('#'): continue
DrvSkipComment ==
  /\ drvPc = "loop"
  /\ ~drvDrain
  /\ SkipsComments(drvOp)
  /\ startswith_hash(drvCmds[drvI])
  /\ drvPc' = DrvAfter(drvPc, drvI)[1]
  /\ drvI' = DrvAfter(drvPc, drvI)[2]
  /\ UNCHANGED <<offDrv, shStart, drvOp, drvCmds, drvDrain, drvLog, drvRet, shMode,
                 shPartial>>

\* The tn.write or tn.read_very_eager the call is at raises (EOFError,
\* OSError).  The apply functions catch it and return False;
\* clear_line_and_reset has no try and the exception leaves it.
DrvFault ==
  /\ drvPc # "done"
  /\ ~(drvPc = "loop" /\ ~drvDrain /\ SkipsComments(drvOp)
       /\ startswith_hash(drvCmds[drvI]))
  /\ drvPc' = "done"
  /\ drvI' = 0
  /\ drvDrain' = FALSE
  /\ drvRet' = IF drvOp = "clear_line_and_reset" THEN "raised" ELSE "False"
  /\ UNCHANGED <<offDrv, shStart, drvOp, drvCmds, drvLog, shMode, shPartial>>

NextDrv ==
  \/ DrvWrite
  \/ DrvDrain
  \/ DrvSkipComment
  \/ DrvFault

SpecDriver == InitDrv /\ [][NextDrv]_vars

\* ------------------------------------------------------------ claims C7-C8
IsPrefix(s, t) == Len(s) <= Len(t) /\ s = SubSeq(t, 1, Len(s))

\* interrupt, 'end', 'enable', blank line, the buffer drained after each.
ResetCalls == <<"^C", "<read_very_eager>", "end", "<read_very_eager>",
                "enable", "<read_very_eager>", "", "<read_very_eager>">>

\* C7: clear_line_and_reset, whatever mode the shell is in and whether or
\* not a line is partly typed, makes its calls on the stream in the order
\* interrupt, 'end', 'enable', blank line with a drain after each write; when
\* it has made them all the shell is in privileged mode with an empty input
\* line.  The same holds of the reset that opens every apply function.
C7_ResetSequence ==
  /\ IsPrefix(SubSeq(drvLog, 1, Min(Len(drvLog), Len(ResetCalls))), ResetCalls)
  /\ (drvOp = "clear_line_and_reset" /\ drvRet = "returned") =>
       drvLog = ResetCalls
  /\ (drvOp \in DriverOps /\ Len(drvLog) = Len(ResetCalls)) =>
       (shMode = "privileged" /\ ~shPartial)

\* A reset that began in interface configuration mode with a partly typed
\* line has returned.
C7_Witness ==
  /\ drvOp = "clear_line_and_reset"
  /\ drvRet = "returned"
  /\ shStart = <<"interface-config", TRUE>>
  /\ shMode = "privileged"
  /\ drvLog = ResetCalls

\* Lines written to the stream, without the drains.
Writes == SelectSeq(drvLog, LAMBDA e : e # "<read_very_eager>")

\* Lines the command loop wrote: what follows the reset and 'configure
\* terminal', without the closing 'end' and 'write memory'.
LoopWrites ==
  SelectSeq(SubSeq(Writes, 6, Len(Writes)),
            LAMBDA e : e \notin {"end", "write memory"})

\* The lines of the list that do not start with '#', in list order.
FirstChar(line) == IF Len(line) = 0 THEN "" ELSE SubSeq(line, 1, 1)
NonComment(cmds) == SelectSeq(cmds, LAMBDA c : FirstChar(c) # "#")

\* C8: an apply function never writes a line that starts with '#', writes
\* the other lines of its list in list order and at most once, and has
\* written each of them exactly once when it returns True.
C8_CommentsSkipped ==
  drvOp \in ApplyOps =>
    /\ \A k \in 1..Len(Writes) : FirstChar(Writes[k]) # "#"
    /\ IsPrefix(LoopWrites, NonComment(drvCmds))
    /\ drvRet = "True" => LoopWrites = NonComment(drvCmds)

\* ============================================================= fix phase
\* FixApplier.apply_all_fixes: the Problems are taken category by category
\* (interfaces, eigrp, ospf), device by device, in list order; each is
\* handled by apply_interface_fix, apply_eigrp_fix or apply_ospf_fix in one
\* step, since nothing else runs meanwhile.

\* Most Problems in a detected_issues map given to the fix phase.
MaxProblems == 2

\* A key the dict does not have / a value of None.
None == "None"

Problem(cat, type, current, expected) ==
  [category |-> cat, type |-> type, interface |-> "Ethernet0/0",
   current |-> current, expected |-> expected, should_be_stub |-> FALSE]

\* Problems the detection trees report: interface_tree.parse_interface_output,
\* eigrp_tree.check_as_mismatch (current and expected AS), eigrp_tree.
\* parse_eigrp_debug (AS mismatch and authentication mismatch seen in the
\* debug log), eigrp_tree.check_stub_configuration, ospf_tree.
\* parse_ospf_debug, ospf_tree stub area check.
ProblemCatalogue ==
  [interfaces |-> {Problem("interfaces", "shutdown", None, None)},
   eigrp |-> {Problem("eigrp", "as mismatch", "2", "1"),
              Problem("eigrp", "as mismatch", None, None),
              Problem("eigrp", "authentication mismatch", None, None),
              Problem("eigrp", "stub configuration", None, None)},
   ospf |-> {Problem("ospf", "duplicate router id", None, None),
             Problem("ospf", "authentication mismatch", None, None),
             Problem("ospf", "unexpected stub area", "1", None)}]

\* config_manager.get_eigrp_as_number / get_ospf_process_id with no baseline
as_number == "1"
process_id == "10"

\* eigrp_tree.get_eigrp_fix_commands, asn the AS number its ConfigManager
\* returns for the device
eigrp_fix_commands_as(asn, issue_type, issue_details) ==
  CASE issue_type \in {"k-value mismatch", "non-default k-values"} ->
         <<"router eigrp " \o asn,
           "metric weights " \o (IF issue_details.expected = None
                                 THEN "0 1 0 1 0 0"
                                 ELSE issue_details.expected),
           "end">>
    [] issue_type = "stub configuration" ->
         IF ~issue_details.should_be_stub
         THEN <<"router eigrp " \o asn, "no eigrp stub", "end">>
         ELSE <<>>
    [] issue_type = "missing stub configuration" ->
         <<"router eigrp " \o asn, "eigrp stub", "end">>
    [] issue_type = "as mismatch" ->
         LET expected_as == IF issue_details.expected = None THEN asn
                            ELSE issue_details.expected
             current_as == issue_details.current
         IN IF current_as # None /\ expected_as # None
            THEN <<"no router eigrp " \o current_as,
                   "router eigrp " \o expected_as,
                   "# NOTE: Network statements will need to be re-added">>
            ELSE <<>>
    [] issue_type = "passive interface" ->
         IF ~issue_details.should_be_passive
         THEN <<"router eigrp " \o asn,
                "no passive-interface " \o issue_details.interface, "end">>
         ELSE <<>>
    [] issue_type = "missing network" ->
         <<"router eigrp " \o asn,
           "network " \o issue_details.network, "end">>
    [] issue_type = "extra network" ->
         <<"router eigrp " \o asn,
           "no network " \o issue_details.network, "end">>
    [] issue_type \in {"eigrp hello timer mismatch", "eigrp hold timer mismatch",
                       "eigrp timer mismatch"} ->
         LET expected_hello == IF issue_details.expected_hello = None THEN "5"
                               ELSE issue_details.expected_hello
             expected_hold == IF issue_details.expected_hold = None THEN "15"
                              ELSE issue_details.expected_hold
         IN <<"interface " \o issue_details.interface,
              "ip hello-interval eigrp " \o asn \o " " \o expected_hello,
              "ip hold-time eigrp " \o asn \o " " \o expected_hold,
              "end">>
    [] OTHER -> <<>>

\* eigrp_tree.get_eigrp_fix_commands where the baseline has no AS number
get_eigrp_fix_commands(issue_type, issue_details) ==
  eigrp_fix_commands_as(as_number, issue_type, issue_details)

\* A fix engine that answers a stub Problem by removing the OSPF process
get_ospf_fix_commands_process(issue_type, issue_details) ==
  IF issue_type \in {"stub area", "unexpected stub area"}
  THEN <<"no router ospf " \o process_id, "end">>
  ELSE <<>>

\* ospf_tree.get_ospf_fix_commands (the area of a stub Problem is carried in
\* the field current)
get_ospf_fix_commands(issue_type, issue_details) ==
  CASE issue_type \in {"stub area", "unexpected stub area"} ->
         IF ~issue_details.should_be_stub
         THEN <<"router ospf " \o process_id,
                "no area " \o issue_details.current \o " stub", "end">>
         ELSE <<>>
    [] issue_type = "process id mismatch" ->
         LET expected_process == IF issue_details.expected = None
                                 THEN process_id ELSE issue_details.expected
         IN IF issue_details.current # None /\ expected_process # None
            THEN <<"no router ospf " \o issue_details.current,
                   "router ospf " \o expected_process,
                   "# Network statements will need to be re-added manually">>
            ELSE <<>>
    [] issue_type = "possible duplicate router id" -> <<>>
    [] issue_type \in {"hello interval mismatch", "dead interval mismatch",
                       "ospf timer mismatch"} ->
         LET expected_hello == IF issue_details.expected_hello = None THEN "10"
                               ELSE issue_details.expected_hello
             expected_dead == IF issue_details.expected_dead = None THEN "40"
                              ELSE issue_details.expected_dead
         IN <<"interface " \o issue_details.interface,
              "ip ospf hello-interval " \o expected_hello,
              "ip ospf dead-interval " \o expected_dead,
              "end">>
    [] issue_type = "passive interface" ->
         IF ~issue_details.should_be_passive
         THEN <<"router ospf " \o process_id,
                "no passive-interface " \o issue_details.interface, "end">>
         ELSE <<>>
    [] issue_type = "missing network" ->
         <<"router ospf " \o process_id,
           "network " \o issue_details.network \o " " \o issue_details.wildcard
             \o " area " \o issue_details.area,
           "end">>
    [] issue_type = "extra network" ->
         <<"router ospf " \o process_id,
           "no network " \o issue_details.network \o " "
             \o issue_details.wildcard \o " area " \o issue_details.area,
           "end">>
    [] issue_type = "missing stub area" ->
         <<"router ospf " \o process_id,
           "area " \o issue_details.area \o " stub", "end">>
    [] OTHER -> <<>>

\* What the handler of a category gets from the fix engine.  The interface
\* handler asks no engine: the commands are in fix_interface_shutdown.
FixCommands(item) ==
  CASE item.category = "eigrp" ->
         get_eigrp_fix_commands(item.problem.type, item.problem)
    [] item.category = "ospf" ->
         get_ospf_fix_commands(item.problem.type, item.problem)
    [] OTHER -> <<"interface " \o item.problem.interface, "no shutdown">>

\* All tn.write calls of a call that meets no fault: fix_interface_shutdown
\* (reset, then its four lines), eigrp_tree.apply_eigrp_fixes,
\* ospf_tree.apply_ospf_fixes.
ApplyScript_no_configure(item, commands) ==
  ResetScript \o SelectSeq(commands, LAMBDA c : ~startswith_hash(c))
    \o <<"end">>
ApplyScript(item, commands) ==
  CASE item.category = "interfaces" ->
         ResetScript \o <<"configure terminal">> \o commands \o <<"end">>
    [] item.category = "eigrp" ->
         ResetScript \o <<"configure terminal">>
           \o SelectSeq(commands, LAMBDA c : ~startswith_hash(c)) \o <<"end">>
    [] item.category = "ospf" ->
         ResetScript \o <<"configure terminal">>
           \o SelectSeq(commands, LAMBDA c : ~startswith_hash(c))
           \o <<"end", "write memory">>

\* verify_interface_status / verify_eigrp_neighbors / verify_ospf_neighbors
VerifyScript(item) ==
  CASE item.category = "interfaces" ->
         ResetScript \o <<"show ip interface brief">>
    [] item.category = "eigrp" -> <<CtrlC, "end", "show ip eigrp neighbors">>
    [] item.category = "ospf" -> <<CtrlC, "end", "show ip ospf neighbor">>

\* What a verification call returns after j of its writes went through: a
\* fault anywhere gives "... Verification Failed"; a complete call gives the
\* status or neighbors it parsed ("found") or "Status Unknown" / "No
\* neighbors found" ("nothing found").
VerifyOutcomes(item, j) ==
  IF j < Len(VerifyScript(item)) THEN {"Verification Failed"}
  ELSE {"Verification Failed", "nothing found", "found"}

\* A result only when the verification found what it looked for.
FixResult_if_verified(item, k, commands, verification) ==
  IF verification = "found"
  THEN <<[device |-> item.device, commands |-> commands,
          verification |-> verification, item |-> k]>>
  ELSE <<>>

\* return {'device': ..., 'commands': ..., 'verification': verification},
\* appended by apply_all_fixes (if result: self.fix_results.append(result));
\* item is the place of the Problem in the iteration.
FixResult(item, k, commands, verification) ==
  <<[device |-> item.device, commands |-> commands,
     verification |-> verification, item |-> k]>>

\* A send that starts over after its fault.
SentOnFault_retry(script, k) == SubSeq(script, 1, k) \o script

\* Lines written by a send that meets a fault after k writes: the except
\* clause returns False and nothing more is written.
SentOnFault(script, k) == SubSeq(script, 1, k)

\* Always accepted.
approved_always(auto_approve, answer) == TRUE

\* auto_approve or Confirm.ask(...)
approved(auto_approve, answer) == auto_approve \/ answer

\* ---- iteration order of apply_all_fixes
EntryItems(cat, e) ==
  [i \in 1..Len(e.problems) |->
     [category |-> cat, device |-> e.device, problem |-> e.problems[i]]]

RECURSIVE CategoryItems(_, _)
CategoryItems(cat, entries) ==
  IF entries = <<>> THEN <<>>
  ELSE EntryItems(cat, Head(entries)) \o CategoryItems(cat, Tail(entries))

\* An iteration that starts with the OSPF Problems
FixWork_ospf_first ==
  CategoryItems("ospf", fxIssues["ospf"])
    \o CategoryItems("interfaces", fxIssues["interfaces"])
    \o CategoryItems("eigrp", fxIssues["eigrp"])

FixWork ==
  CategoryItems("interfaces", fxIssues["interfaces"])
    \o CategoryItems("eigrp", fxIssues["eigrp"])
    \o CategoryItems("ospf", fxIssues["ospf"])

\* ---- inputs
\* A device's list for a category holds a Problem once: each check reports
\* a setting at most once.
ProblemLists(cat) ==
  {q \in UNION {[1..n -> ProblemCatalogue[cat]] : n \in 0..MaxProblems} :
     \A i, j \in DOMAIN q : q[i] = q[j] => i = j}

\* One device per category (R1 runs EIGRP, R4 runs OSPF); a category with no
\* Problem has no entry, as the scan records non-empty lists only.
Entries(d, problems) ==
  IF problems = <<>> THEN <<>> ELSE <<[device |-> d, problems |-> problems]>>

FixInputs ==
  {[interfaces |-> Entries(1, pi), eigrp |-> Entries(1, pe),
    ospf |-> Entries(4, po)] :
     <<pi, pe, po>> \in
       {t \in ProblemLists("interfaces") \X ProblemLists("eigrp")
                \X ProblemLists("ospf") :
          Len(t[1]) + Len(t[2]) + Len(t[3]) \in 1..MaxProblems}}

InitFix ==
  /\ RunIdle
  /\ DrvIdle
  /\ DifIdle
  /\ CmIdle
  /\ fxIssues \in FixInputs
  /\ fxConn \in {{1, 4}, {1}}
  /\ auto_approve_all \in BOOLEAN
  /\ fxPc = "fixing"
  /\ fxK = 0
  /\ fxLog = <<>>
  /\ fix_results = <<>>

\* Log entry of a handled Problem.
Handled(item, commands, asked, answer, sent, ok) ==
  [item |-> item, commands |-> commands, asked |-> asked, answer |-> answer,
   sent |-> sent, ok |-> ok]

\* A lookup that finds a Session for every device
device_connections_get_any(conn, device) == TRUE

\* tn = device_connections.get(device), with conn the devices that have an
\* entry in device_connections: whether the lookup finds a Session
device_connections_get(conn, device) == device \in conn

\* tn = device_connections.get(device); if not tn: continue
fix_no_session ==
  /\ fxPc = "fixing"
  /\ fxK < Len(FixWork)
  /\ LET item == FixWork[fxK + 1] IN
       /\ ~device_connections_get(fxConn, item.device)
       /\ fxLog' = Append(fxLog, Handled(item, <<>>, FALSE, FALSE, <<>>, FALSE))
  /\ fxK' = fxK + 1
  /\ UNCHANGED <<offFix, fxIssues, fxConn, auto_approve_all, fxPc,
                 fix_results>>

\* if not fix_commands: "Manual intervention required"; return None
fix_manual_intervention ==
  /\ fxPc = "fixing"
  /\ fxK < Len(FixWork)
  /\ LET item == FixWork[fxK + 1] IN
       /\ device_connections_get(fxConn, item.device)
       /\ FixCommands(item) = <<>>
       /\ fxLog' = Append(fxLog, Handled(item, <<>>, FALSE, FALSE, <<>>, FALSE))
  /\ fxK' = fxK + 1
  /\ UNCHANGED <<offFix, fxIssues, fxConn, auto_approve_all, fxPc,
                 fix_results>>

\* if auto_approve or Confirm.ask(...): apply, verify, return the result.
\* The prompt is shown only when auto_approve is False.  The apply call
\* either meets a fault after k writes and returns False, or writes its
\* whole script and returns True; verification follows a True only, and its
\* own fault (after j writes) does not withhold the result.
apply_fix ==
  /\ fxPc = "fixing"
  /\ fxK < Len(FixWork)
  /\ LET item == FixWork[fxK + 1]
         commands == FixCommands(item)
         script == ApplyScript(item, commands)
         verify == VerifyScript(item)
     IN
       /\ device_connections_get(fxConn, item.device)
       /\ commands # <<>>
       /\ \E answer \in (IF auto_approve_all THEN {FALSE} ELSE BOOLEAN) :
            IF approved(auto_approve_all, answer)
            THEN \/ \E k \in 0..Len(script) :
                      /\ fxLog' = Append(fxLog,
                           Handled(item, commands, ~auto_approve_all, answer,
                                   SentOnFault(script, k), FALSE))
                      /\ UNCHANGED fix_results
                 \/ \E j \in 0..Len(verify) :
                      \E verification \in VerifyOutcomes(item, j) :
                        /\ fxLog' = Append(fxLog,
                             Handled(item, commands, ~auto_approve_all, answer,
                                     script \o SubSeq(verify, 1, j), TRUE))
                        /\ fix_results' = fix_results \o
                             FixResult(item, fxK + 1, commands, verification)
            ELSE /\ fxLog' = Append(fxLog,
                      Handled(item, commands, TRUE, answer, <<>>, FALSE))
                 /\ UNCHANGED fix_results
  /\ fxK' = fxK + 1
  /\ UNCHANGED <<offFix, fxIssues, fxConn, auto_approve_all, fxPc>>

\* return self.fix_results
apply_all_fixes_returns ==
  /\ fxPc = "fixing"
  /\ fxK = Len(FixWork)
  /\ fxPc' = "returned"
  /\ UNCHANGED <<offFix, fxIssues, fxConn, auto_approve_all, fxK,
                 fxLog, fix_results>>

NextFix ==
  \/ fix_no_session
  \/ fix_manual_intervention
  \/ apply_fix
  \/ apply_all_fixes_returns

SpecFix == InitFix /\ [][NextFix]_vars

\* apply_all_fixes is a loop of calls that each return: with the operator
\* answering every prompt, the phase keeps taking steps.
SpecFixLive == InitFix /\ [][NextFix]_vars /\ WF_vars(NextFix)

\* ----------------------------------------------------------- claims C9-C10
\* C9: lines are written for a Problem only if fix mode "all" is on or the
\* operator was asked about that Problem and answered yes; a Problem the
\* operator declined has no line written and no entry in fix_results.
C9_NoFixWithoutAccept ==
  \A i \in 1..Len(fxLog) :
    /\ fxLog[i].sent # <<>> =>
         (auto_approve_all \/ (fxLog[i].asked /\ fxLog[i].answer))
    /\ (fxLog[i].asked /\ ~fxLog[i].answer) =>
         /\ fxLog[i].sent = <<>>
         /\ \A r \in 1..Len(fix_results) : fix_results[r].item # i

\* One Problem was declined and nothing was written for it; another was
\* accepted at its prompt and its commands were written.
C9_Witness ==
  /\ fxPc = "returned"
  /\ \E i, j \in 1..Len(fxLog) :
       /\ fxLog[i].asked /\ ~fxLog[i].answer /\ fxLog[i].sent = <<>>
       /\ fxLog[j].asked /\ fxLog[j].answer /\ fxLog[j].ok
       /\ \E r \in 1..Len(fix_results) : fix_results[r].item = j

ManualTypes == {"authentication mismatch", "duplicate router id",
                "as mismatch"}

\* C10: for a Problem of type authentication mismatch, duplicate router id
\* or AS mismatch the fix engine yields no commands and the fix phase writes
\* no line.
C10_ManualInterventionOnly ==
  \A i \in 1..Len(fxLog) :
    fxLog[i].item.problem.type \in ManualTypes =>
      (fxLog[i].commands = <<>> /\ fxLog[i].sent = <<>>)

\* ---------------------------------------------------------- claims C11-C12
\* Problems for which the accept decision was given.
Accepted(i) == auto_approve_all \/ (fxLog[i].asked /\ fxLog[i].answer)

\* Results recorded for the i-th Problem.
ResultsOf(i) == {r \in 1..Len(fix_results) : fix_results[r].item = i}

\* Lines of the three verification calls: none is a configuration command.
VerifyLines == {"^C", "end", "enable", "", "show ip interface brief",
                "show ip eigrp neighbors", "show ip ospf neighbor"}

\* C11: a Problem has a FixResult (exactly one) if and only if it was
\* accepted and its command-send returned True, whatever the verification
\* returned; and after a successful send only verification lines follow the
\* send's own lines: no command is sent to undo the fix.
C11_ResultIffApplied ==
  \A i \in 1..Len(fxLog) :
    /\ ResultsOf(i) # {} <=> (Accepted(i) /\ fxLog[i].ok)
    /\ Cardinality(ResultsOf(i)) <= 1
    /\ fxLog[i].ok =>
         LET script == ApplyScript(fxLog[i].item, fxLog[i].commands) IN
           /\ Len(fxLog[i].sent) >= Len(script)
           /\ SubSeq(fxLog[i].sent, 1, Len(script)) = script
           /\ \A n \in (Len(script) + 1)..Len(fxLog[i].sent) :
                fxLog[i].sent[n] \in VerifyLines
           /\ Len(fxLog[i].sent) - Len(script) <= 5

\* A fix whose verification failed and one whose verification found
\* nothing are both in fix_results.
C11_Witness ==
  /\ fxPc = "returned"
  /\ \E r, q \in 1..Len(fix_results) :
       /\ fix_results[r].verification = "Verification Failed"
       /\ fix_results[q].verification = "nothing found"
       /\ fxLog[fix_results[r].item].ok

\* C12: apply_all_fixes handles the Problems one by one in iteration
\* order, each once: a Problem with no fix commands has nothing written, a
\* Problem whose send failed has at most one pass of its script written; and
\* whatever the outcomes, the phase handles every Problem and returns.
C12_Handling ==
  /\ Len(fxLog) = fxK
  /\ fxK <= Len(FixWork)
  /\ \A i \in 1..Len(fxLog) :
       /\ fxLog[i].item = FixWork[i]
       /\ fxLog[i].commands = <<>> => fxLog[i].sent = <<>>
       /\ ~fxLog[i].ok =>
            IsPrefix(fxLog[i].sent,
                     ApplyScript(fxLog[i].item, fxLog[i].commands))
  /\ fxPc = "returned" => Len(fxLog) = Len(FixWork)

C12_NoRetryRunContinues == []C12_Handling /\ <>(fxPc = "returned")

\* A manual-intervention Problem, then a Problem whose send failed midway,
\* and the phase has returned.
C12_Witness ==
  /\ fxPc = "returned"
  /\ Len(fxLog) = 2
  /\ fxLog[1].item.device \in fxConn /\ fxLog[1].commands = <<>>
  /\ Accepted(2) /\ ~fxLog[2].ok /\ fxLog[2].sent # <<>>

\* =========================================================================
\* The detection trees: one scan of one device against its baseline, one
\* remediation, a second scan.
\* =========================================================================

\* Settings in which the running configuration differs from the baseline.
MaxFaults == 2

\* dict.get(key, default)
Get(d, key, default) == IF key \in DOMAIN d THEN d[key] ELSE default

\* {} (a dict with no key)
EmptyDict == [k \in {} |-> None]

Networks == {"10.0.0.0", "192.168.1.0"}
Eth == "Ethernet0/0"

\* An OSPF network statement: (network, wildcard, area)
OspfNetwork(n) == [network |-> n, wildcard |-> "0.0.0.255", area |-> "0"]

\* A configuration as ConfigManager._parse_device_config lays it out: the
\* section of the routing protocol the device runs and its interfaces.
\* t = <<AS or process id, networks, passive interfaces, stub, hello
\* interval of Ethernet0/0, shutdown of Ethernet0/0>>.  K-values, hold and
\* dead intervals, addresses and the router id are left at one value.
DeviceConfig(d, t) ==
  IF is_eigrp_router(d)
  THEN [eigrp |-> [as_number |-> t[1], networks |-> t[2],
                   passive_interfaces |-> t[3], is_stub |-> t[4]],
        interfaces |-> [i \in {Eth} |->
                          [ip_address |-> "10.0.0.1", shutdown |-> t[6],
                           eigrp_hello |-> t[5]]]]
  ELSE [ospf |-> [process_id |-> t[1],
                  networks |-> {OspfNetwork(n) : n \in t[2]},
                  passive_interfaces |-> t[3],
                  stub_areas |-> IF t[4] THEN {"1"} ELSE {}],
        interfaces |-> [i \in {Eth} |->
                          [ip_address |-> "10.0.0.1", shutdown |-> t[6],
                           ospf_hello |-> t[5]]]]

\* Stable configurations: AS 1 / process 10, Ethernet0/0 up.
BaselineSettings(d) ==
  {IF is_eigrp_router(d) THEN "1" ELSE "10"} \X (SUBSET Networks)
    \X {{}, {Eth}} \X BOOLEAN \X {"5", "10"} \X {FALSE}

RunningSettings(d) ==
  (IF is_eigrp_router(d) THEN {"1", "2"} ELSE {"10", "1"}) \X (SUBSET Networks)
    \X {{}, {Eth}} \X BOOLEAN \X {"5", "10"} \X BOOLEAN

Faults(t, u) == Cardinality({i \in 1..6 : t[i] # u[i]})

\* R1 runs EIGRP, R4 runs OSPF.
DiffDevices == {1, 4}

InitDif ==
  /\ RunIdle
  /\ DrvIdle
  /\ FixIdle
  /\ dfDevice \in DiffDevices
  /\ \E t \in BaselineSettings(dfDevice) :
       \E u \in {r \in RunningSettings(dfDevice) : Faults(t, r) <= MaxFaults} :
         /\ dfBaseline = DeviceConfig(dfDevice, t)
         /\ dfRunning = DeviceConfig(dfDevice, u)
  /\ dfPeer \in {"up", "down", "down mismatch"}
  /\ dfOutput = FullOutput
  /\ dfPc = "start"
  /\ dfIssues = {}
  /\ dfFixed = <<>>
  /\ dfAgain = {}
  /\ dfLog = <<>>
  /\ dfLegacy = <<>>
  /\ CmIdle

\* ---- collection
\* What a read drains: the whole output, a few characters of it (shorter
\* than 50), nothing, or the stream fails.  At most one step of a scan is
\* degraded.
OutputCases ==
  {FullOutput, [FullOutput EXCEPT !["neighbors"] = "banner"]} \cup
  {[FullOutput EXCEPT ![s] = q] : s \in Steps, q \in {"short", "empty", "fault"}}

\* interface_tree.get_interface_status: output if len(output) >= 50 else
\* None; None on an exception.  TRUE when the caller gets text.
get_interface_status(out) == out = "full"

\* eigrp_tree.get_eigrp_config, get_eigrp_neighbors, ospf_tree.
\* get_ospf_config, get_ospf_neighbors: the output whatever its length, None
\* on an exception.  TRUE when the caller's "if not config" lets it through
\* (a non-empty text).
get_eigrp_config(out) == out \in {"full", "short"}
get_ospf_config(out) == out \in {"full", "short"}

\* What the regular expressions of the checks find in the text: the
\* configuration in the whole output, no line at all in a few characters.
Parsed(out, c) == IF out = "full" THEN c ELSE EmptyDict

\* ---- Problems
IssueKeys ==
  {"category", "type", "interface", "current", "expected", "should_be_stub",
   "should_be_passive", "network", "wildcard", "area", "expected_hello",
   "expected_hold", "expected_dead", "expected_area"}

\* A Problem dict; a key it does not have reads None (False for the two
\* flags).  category is the list of detected_issues that holds the Problem.
Issue(cat, type, kv) ==
  [k \in IssueKeys |->
     IF k = "category" THEN cat
     ELSE IF k = "type" THEN type
     ELSE IF k \in DOMAIN kv THEN kv[k]
     ELSE IF k \in {"should_be_stub", "should_be_passive"} THEN FALSE
     ELSE None]

\* ---- interface_tree
\* An interface is expected up whenever the baseline gives it an address
should_interface_be_up_addressed(b, interface) ==
  Get(Get(Get(b, "interfaces", EmptyDict), interface, EmptyDict),
      "ip_address", None) # None

\* ConfigManager.should_interface_be_up
should_interface_be_up(b, interface) ==
  LET intf_info == Get(Get(b, "interfaces", EmptyDict), interface, EmptyDict)
  IN Get(intf_info, "ip_address", None) # None
       /\ ~Get(intf_info, "shutdown", FALSE)

\* interface_tree.parse_interface_output on the lines of the summary (the
\* addresses of the running configuration are those of the baseline)
parse_interface_output(c, b) ==
  {Issue("interfaces", "shutdown", [interface |-> i]) :
     i \in {j \in DOMAIN Get(c, "interfaces", EmptyDict) :
              c.interfaces[j].shutdown /\ should_interface_be_up(b, j)}}

\* interface_tree.troubleshoot_device(auto_prompt=False)
troubleshoot_device(out, c, b) ==
  IF ~get_interface_status(out.summary) THEN {}
  ELSE parse_interface_output(c, b)

\* ---- eigrp_tree
\* ConfigManager.get_eigrp_as_number
get_eigrp_as_number(b) == Get(Get(b, "eigrp", EmptyDict), "as_number", "1")

eigrp_check_as_mismatch(out, c, b) ==
  IF ~get_eigrp_config(out.config) THEN {}
  ELSE LET cfg == Parsed(out.config, c)
           expected_as == get_eigrp_as_number(b)
       IN IF "eigrp" \in DOMAIN cfg /\ cfg.eigrp.as_number # expected_as
          THEN {Issue("eigrp", "as mismatch",
                      [current |-> cfg.eigrp.as_number, expected |-> expected_as])}
          ELSE {}

check_stub_configuration(out, c, b) ==
  IF ~get_eigrp_config(out.config) THEN {}
  ELSE LET cfg == Parsed(out.config, c)
           expected_stub == Get(Get(b, "eigrp", EmptyDict), "is_stub", FALSE)
           current_stub == "eigrp" \in DOMAIN cfg /\ cfg.eigrp.is_stub
       IN IF current_stub /\ ~expected_stub
          THEN {Issue("eigrp", "stub configuration", [should_be_stub |-> FALSE])}
          ELSE IF ~current_stub /\ expected_stub
          THEN {Issue("eigrp", "missing stub configuration",
                      [should_be_stub |-> TRUE])}
          ELSE {}

eigrp_check_passive_interfaces(out, c, b) ==
  IF ~get_eigrp_config(out.config) THEN {}
  ELSE LET cfg == Parsed(out.config, c)
           expected_passive ==
             Get(Get(b, "eigrp", EmptyDict), "passive_interfaces", {})
           current_passive ==
             Get(Get(cfg, "eigrp", EmptyDict), "passive_interfaces", {})
       IN {Issue("eigrp", "passive interface",
                 [interface |-> i, should_be_passive |-> FALSE]) :
             i \in current_passive \ expected_passive}

eigrp_check_network_statements(out, c, b) ==
  IF ~get_eigrp_config(out.config) THEN {}
  ELSE LET cfg == Parsed(out.config, c)
           expected_networks == Get(Get(b, "eigrp", EmptyDict), "networks", {})
           current_networks == Get(Get(cfg, "eigrp", EmptyDict), "networks", {})
       IN IF expected_networks = {} THEN {}
          ELSE {Issue("eigrp", "missing network", [network |-> n]) :
                  n \in expected_networks \ current_networks}
               \cup
               {Issue("eigrp", "extra network", [network |-> n]) :
                  n \in current_networks \ expected_networks}

\* The detail command of an interface the protocol does not run on answers
\* "not found" / "not running"; a short read matches no interval.
check_eigrp_interface_timers(out, c, b) ==
  LET baseline_interfaces == Get(b, "interfaces", EmptyDict)
  IN {Issue("eigrp", "eigrp timer mismatch",
            [interface |-> i,
             expected_hello |-> Get(baseline_interfaces[i], "eigrp_hello", "5"),
             expected_hold |-> "15"]) :
        i \in {j \in DOMAIN baseline_interfaces :
                 /\ Get(baseline_interfaces[j], "ip_address", None) # None
                 /\ out.detail = "full"
                 /\ "eigrp" \in DOMAIN c
                 /\ j \in DOMAIN c.interfaces
                 /\ c.interfaces[j].eigrp_hello
                      # Get(baseline_interfaces[j], "eigrp_hello", "5")}}

\* eigrp_tree.parse_eigrp_debug on the log of a device whose neighbor is
\* down: a K-value mismatch line, or no line it knows.
parse_eigrp_debug(peer) ==
  IF peer = "down mismatch" THEN {Issue("eigrp", "k-value mismatch", EmptyDict)}
  ELSE {}

\* Lines of the neighbor table that hold a digit, the lines that start with
\* 'H' or hold 'Address' left out: the entry of the neighbor, and in a
\* "banner" read a line that is no entry (the table's title with the AS
\* number, the prompt of a device whose name holds a digit).
neighbor_count(out, peer) ==
  (IF out \in {"full", "banner"} /\ peer = "up" THEN 1 ELSE 0)
    + (IF out = "banner" THEN 1 ELSE 0)

\* eigrp_tree.troubleshoot_eigrp(auto_prompt=False)
eigrp_all_issues(out, c, b) ==
  eigrp_check_as_mismatch(out, c, b)
    \cup check_stub_configuration(out, c, b)
    \cup eigrp_check_passive_interfaces(out, c, b)
    \cup eigrp_check_network_statements(out, c, b)
    \cup check_eigrp_interface_timers(out, c, b)

troubleshoot_eigrp(d, out, c, b, peer) ==
  IF ~is_eigrp_router(d) THEN {}
  ELSE LET all_issues == eigrp_all_issues(out, c, b)
       IN IF out.neighbors \notin {"full", "banner", "short"} THEN all_issues
          ELSE IF neighbor_count(out.neighbors, peer) = 0 /\ all_issues = {}
          THEN parse_eigrp_debug(peer)
          ELSE all_issues

\* ---- ospf_tree
\* The module's own get_device_baseline, defined where its import of the
\* configuration manager falls back: return {}.  Every check of the module
\* reads its baseline through it.
ospf_get_device_baseline(b) == EmptyDict

ospf_check_process_id_mismatch(out, c) ==
  IF ~get_ospf_config(out.config) THEN {}
  ELSE LET cfg == Parsed(out.config, c)
           expected_process == process_id
       IN IF "ospf" \in DOMAIN cfg /\ cfg.ospf.process_id # expected_process
          THEN {Issue("ospf", "process id mismatch",
                      [current |-> cfg.ospf.process_id,
                       expected |-> expected_process])}
          ELSE {}

ospf_check_passive_interfaces(out, c, baseline) ==
  IF ~get_ospf_config(out.config) THEN {}
  ELSE LET cfg == Parsed(out.config, c)
           expected_passive ==
             Get(Get(baseline, "ospf", EmptyDict), "passive_interfaces", {})
           current_passive ==
             Get(Get(cfg, "ospf", EmptyDict), "passive_interfaces", {})
       IN {Issue("ospf", "passive interface",
                 [interface |-> i, should_be_passive |-> FALSE]) :
             i \in current_passive \ expected_passive}
          \cup
          {Issue("ospf", "missing passive interface",
                 [interface |-> i, should_be_passive |-> TRUE]) :
             i \in expected_passive \ current_passive}

\* The area of a stub Problem is carried in the fields area and current.
check_stub_config(out, c, baseline) ==
  IF ~get_ospf_config(out.config) THEN {}
  ELSE LET cfg == Parsed(out.config, c)
           expected_stub_areas ==
             Get(Get(baseline, "ospf", EmptyDict), "stub_areas", {})
           current_stub_areas ==
             Get(Get(cfg, "ospf", EmptyDict), "stub_areas", {})
       IN {Issue("ospf", "unexpected stub area",
                 [area |-> a, current |-> a, should_be_stub |-> FALSE]) :
             a \in current_stub_areas \ expected_stub_areas}
          \cup
          {Issue("ospf", "missing stub area",
                 [area |-> a, current |-> a, should_be_stub |-> TRUE]) :
             a \in expected_stub_areas \ current_stub_areas}

\* extra = current_set - expected_set, and nothing for expected - current
ospf_check_network_statements(out, c, baseline) ==
  IF ~get_ospf_config(out.config) THEN {}
  ELSE LET cfg == Parsed(out.config, c)
           expected_set == Get(Get(baseline, "ospf", EmptyDict), "networks", {})
           current_set == Get(Get(cfg, "ospf", EmptyDict), "networks", {})
       IN {Issue("ospf", "extra network",
                 [network |-> n.network, wildcard |-> n.wildcard,
                  area |-> n.area]) :
             n \in current_set \ expected_set}

\* The second definition of the name in the module, the one in force.
check_interface_timers(out, c, baseline) ==
  LET interfaces == Get(baseline, "interfaces", EmptyDict)
  IN {Issue("ospf", "hello interval mismatch",
            [interface |-> i,
             current |-> c.interfaces[i].ospf_hello,
             expected |-> Get(interfaces[i], "ospf_hello", "10")]) :
        i \in {j \in DOMAIN interfaces :
                 /\ Get(interfaces[j], "ip_address", None) # None
                 /\ out.detail = "full"
                 /\ "ospf" \in DOMAIN c
                 /\ j \in DOMAIN c.interfaces
                 /\ c.interfaces[j].ospf_hello
                      # Get(interfaces[j], "ospf_hello", "10")}}

\* ospf_tree.parse_ospf_debug on the log of a device whose neighbor is down:
\* a hello mismatch line, or no line it knows.
parse_ospf_debug(peer) ==
  IF peer = "down mismatch"
  THEN {Issue("ospf", "hello interval mismatch", EmptyDict)}
  ELSE {}

\* ospf_tree.troubleshoot_ospf(auto_prompt=False).  With no networks and no
\* router id in the baseline it reads, check_ospf_enabled_interfaces,
\* check_area_assignments and check_router_id_conflicts add nothing for a
\* neighbor that is up or absent.
ospf_all_issues(out, c, baseline) ==
  ospf_check_process_id_mismatch(out, c)
    \cup ospf_check_passive_interfaces(out, c, baseline)
    \cup check_stub_config(out, c, baseline)
    \cup ospf_check_network_statements(out, c, baseline)
    \cup check_interface_timers(out, c, baseline)

troubleshoot_ospf(d, out, c, b, peer) ==
  IF ~is_ospf_router(d) THEN {}
  ELSE LET all_issues == ospf_all_issues(out, c, ospf_get_device_baseline(b))
       IN IF out.neighbors \notin {"full", "banner", "short"} THEN all_issues
          ELSE IF neighbor_count(out.neighbors, peer) = 0 /\ all_issues = {}
          THEN parse_ospf_debug(peer)
          ELSE all_issues

\* ProblemDetector.scan_device: the three categories, each in its own try
scan_problems(d, out, c, b, peer) ==
  troubleshoot_device(out, c, b)
    \cup troubleshoot_eigrp(d, out, c, b, peer)
    \cup troubleshoot_ospf(d, out, c, b, peer)

\* ---- what a scan does on the session and with the baseline
\* One entry of the log: a tn.write of a command, a time.sleep of the debug
\* window, or a lookup of a key of the device's baseline.
Ev(op, arg) == [op |-> op, arg |-> arg]
Wr(cmd) == Ev("write", cmd)
Bl(key) == Ev("baseline", key)
Ck(name) == Ev("check", name)

\* A troubleshoot_device that goes on to fix_interface_shutdown
interface_log_auto_prompt(out, c, b) ==
  <<Wr("show ip interface brief"), Wr("configure terminal"),
    Wr("interface " \o Eth), Wr("no shutdown"), Wr("end")>>
\* interface_tree.troubleshoot_device: the summary, then for every interface
\* line should_interface_be_up, and for an interface that is not
\* administratively down check_ip_address_mismatch.
interface_log(out, c, b) ==
  <<Wr("show ip interface brief")>>
    \o (IF ~get_interface_status(out.summary) THEN <<>>
        ELSE <<Bl("interfaces")>>
               \o (IF c.interfaces[Eth].shutdown THEN <<>>
                   ELSE <<Wr("show running-config interface " \o Eth),
                          Bl("interfaces")>>))

\* One configuration check of eigrp_tree: get_eigrp_config, then the
\* expected value from the baseline.
eigrp_config_check(out) ==
  <<Wr("terminal length 0"), Wr("show running-config")>>
    \o (IF get_eigrp_config(out.config) THEN <<Bl("eigrp")>> ELSE <<>>)

\* enable_eigrp_debug, gather_eigrp_debug(wait_time=5), disable_debug
eigrp_debug_log ==
  <<Wr("debug eigrp packets"), Ev("sleep", "5"), Wr("show logging"),
    Wr("no debug all")>>

\* eigrp_tree.troubleshoot_eigrp(auto_prompt=False): AS, stub, passive
\* interfaces, K-values and networks from the configuration, the timers of
\* every addressed interface of the baseline, the neighbor table, and the
\* debug log when the table has no neighbor and no check found a Problem.
eigrp_log(d, out, c, b, peer) ==
  IF ~is_eigrp_router(d) THEN <<>>
  ELSE <<Ck("as")>> \o eigrp_config_check(out)
         \o <<Ck("stub")>> \o eigrp_config_check(out)
         \o <<Ck("passive interface")>> \o eigrp_config_check(out)
         \o <<Ck("k-values")>> \o eigrp_config_check(out)
         \o <<Ck("network")>> \o eigrp_config_check(out)
         \o <<Ck("timers"), Bl("interfaces"), Bl("eigrp"),
              Wr("show ip eigrp interfaces detail " \o Eth),
              Ck("neighbors"), Wr("show ip eigrp neighbors")>>
         \o (IF out.neighbors \in {"full", "banner", "short"}
                 /\ neighbor_count(out.neighbors, peer) = 0
                 /\ eigrp_all_issues(out, c, b) = {}
             THEN eigrp_debug_log ELSE <<>>)

\* One configuration check of ospf_tree: get_ospf_config, then the module's
\* get_device_baseline.
ospf_config_check(out) ==
  <<Wr("show running-config")>>
    \o (IF get_ospf_config(out.config) THEN <<Bl("ospf")>> ELSE <<>>)

\* enable_ospf_debug, gather_ospf_debug(wait_time=10), disable_debug
ospf_debug_log ==
  <<Wr("debug ip ospf adj"), Ev("sleep", "10"), Wr("show logging"),
    Wr("no debug all")>>

\* ospf_tree.troubleshoot_ospf(auto_prompt=False): process id, passive
\* interfaces, stub areas and networks from the configuration; the checks of
\* the interfaces find no interface in the baseline the module reads and
\* send nothing; the router id, the neighbor table, and the debug log when
\* the table has no neighbor and no check found a Problem.
ospf_log(d, out, c, b, peer) ==
  IF ~is_ospf_router(d) THEN <<>>
  ELSE <<Ck("process id")>> \o ospf_config_check(out)
         \o <<Ck("passive interface")>> \o ospf_config_check(out)
         \o <<Ck("stub")>> \o ospf_config_check(out)
         \o <<Ck("network")>> \o ospf_config_check(out)
         \o <<Ck("participation"), Ck("timers"), Bl("interfaces"),
              Ck("area"), Ck("router id"), Bl("ospf"), Wr("show ip ospf"),
              Ck("neighbors"), Wr("show ip ospf neighbor")>>
         \o (IF out.neighbors \in {"full", "banner", "short"}
                 /\ neighbor_count(out.neighbors, peer) = 0
                 /\ ospf_all_issues(out, c, ospf_get_device_baseline(b)) = {}
             THEN ospf_debug_log ELSE <<>>)

\* src/AI_troubleshoot/eigrp_tree.py: check_passive_interfaces and
\* check_stub_config report every passive interface and the stub setting of
\* the running configuration (check_metric_weights finds the default
\* K-values); no baseline is read.
legacy_eigrp_all_issues(out, c) ==
  IF ~get_eigrp_config(out.config) THEN {}
  ELSE LET cfg == Parsed(out.config, c)
           eigrp == Get(cfg, "eigrp", EmptyDict)
       IN {Issue("eigrp", "passive interface", [interface |-> i]) :
             i \in Get(eigrp, "passive_interfaces", {})}
          \cup (IF Get(eigrp, "is_stub", FALSE)
                THEN {Issue("eigrp", "stub configuration", EmptyDict)} ELSE {})

\* src/AI_troubleshoot/eigrp_tree.troubleshoot_eigrp(auto_prompt=False): the
\* three checks each read the configuration, then the neighbor table, then
\* the debug log whenever the table has no neighbor.
legacy_eigrp_log(d, out, peer) ==
  IF ~is_eigrp_router(d) THEN <<>>
  ELSE <<Wr("show running-config | begin router eigrp"),
         Wr("show running-config | begin router eigrp"),
         Wr("show running-config | begin router eigrp"),
         Wr("show ip eigrp neighbors")>>
         \o (IF out.neighbors \in {"full", "banner", "short"}
                 /\ neighbor_count(out.neighbors, peer) = 0
             THEN eigrp_debug_log ELSE <<>>)

\* ConfigManager.load_latest_baseline: the latest stable snapshot is read
\* from storage and parsed into baseline_cache.
Ld == Ev("load", "config_stable")

\* ConfigManager.get_device_baseline on a manager whose baseline_cache is
\* empty: the first lookup of the log loads the snapshot, the later ones
\* find the cache filled.
get_device_baseline_log(log) ==
  IF \A i \in 1..Len(log) : log[i].op # "baseline" THEN log
  ELSE LET first == CHOOSE i \in 1..Len(log) :
                      /\ log[i].op = "baseline"
                      /\ \A j \in 1..(i - 1) : log[j].op # "baseline"
       IN SubSeq(log, 1, first - 1) \o <<Ld>> \o SubSeq(log, first, Len(log))

\* ProblemDetector.scan_device: interfaces, EIGRP, OSPF.  The interface tree
\* looks up the module's _config_manager (loaded tells whether an earlier
\* scan filled its cache), troubleshoot_eigrp builds a ConfigManager of its
\* own at every call, and the OSPF tree reads the module's own
\* get_device_baseline, which reads no storage.
scan_log(d, out, c, b, peer, loaded) ==
  (IF loaded THEN interface_log(out, c, b)
   ELSE get_device_baseline_log(interface_log(out, c, b)))
    \o get_device_baseline_log(eigrp_log(d, out, c, b, peer))
    \o ospf_log(d, out, c, b, peer)

\* ---- the device's reaction to the lines of a fix
HasPrefix(cmd, p) == Len(cmd) >= Len(p) /\ SubSeq(cmd, 1, Len(p)) = p
After(cmd, p) == SubSeq(cmd, Len(p) + 1, Len(cmd))

\* The keyword of the device's routing protocol and the key of its process
\* number in the section.
Protocol(c) == IF "eigrp" \in DOMAIN c THEN "eigrp" ELSE "ospf"
ProcessKey(proto) == IF proto = "eigrp" THEN "as_number" ELSE "process_id"

NewSection(proto, n) ==
  IF proto = "eigrp"
  THEN [as_number |-> n, networks |-> {}, passive_interfaces |-> {},
        is_stub |-> FALSE]
  ELSE [process_id |-> n, networks |-> {}, passive_interfaces |-> {},
        stub_areas |-> {}]

HasSection(c) == "eigrp" \in DOMAIN c \/ "ospf" \in DOMAIN c

\* The configuration with its routing section removed / set.
NoSection(c) == [interfaces |-> c.interfaces]
WithSection(c, proto, sec) ==
  IF proto = "eigrp" THEN [eigrp |-> sec, interfaces |-> c.interfaces]
  ELSE [ospf |-> sec, interfaces |-> c.interfaces]

\* A line typed in router configuration mode of the section.
RouterLine(proto, sec, cmd) ==
  CASE HasPrefix(cmd, "no passive-interface ") ->
         [sec EXCEPT !.passive_interfaces = @ \ {After(cmd, "no passive-interface ")}]
    [] HasPrefix(cmd, "passive-interface ") ->
         [sec EXCEPT !.passive_interfaces = @ \cup {After(cmd, "passive-interface ")}]
    [] proto = "eigrp" /\ cmd = "eigrp stub" -> [sec EXCEPT !.is_stub = TRUE]
    [] proto = "eigrp" /\ cmd = "no eigrp stub" -> [sec EXCEPT !.is_stub = FALSE]
    [] proto = "eigrp" /\ HasPrefix(cmd, "no network ") ->
         [sec EXCEPT !.networks = @ \ {After(cmd, "no network ")}]
    [] proto = "eigrp" /\ HasPrefix(cmd, "network ") ->
         [sec EXCEPT !.networks = @ \cup {After(cmd, "network ")}]
    [] proto = "ospf" /\ HasPrefix(cmd, "no network ") ->
         [sec EXCEPT !.networks =
            {n \in @ : After(cmd, "no network ")
                         # n.network \o " " \o n.wildcard \o " area " \o n.area}]
    [] proto = "ospf" /\ HasPrefix(cmd, "network ") ->
         [sec EXCEPT !.networks =
            @ \cup {OspfNetwork(n) : n \in
                      {m \in Networks :
                         After(cmd, "network ")
                           = m \o " " \o OspfNetwork(m).wildcard \o " area "
                               \o OspfNetwork(m).area}}]
    [] proto = "ospf" /\ \E a \in {"1"} : cmd = "area " \o a \o " stub" ->
         [sec EXCEPT !.stub_areas = @ \cup {"1"}]
    [] proto = "ospf" /\ \E a \in {"1"} : cmd = "no area " \o a \o " stub" ->
         [sec EXCEPT !.stub_areas = @ \ {"1"}]
    [] OTHER -> sec

\* A line typed in the configuration mode of interface i.
InterfaceLine(c, proto, i, cmd) ==
  CASE cmd = "no shutdown" -> [c EXCEPT !.interfaces[i].shutdown = FALSE]
    [] cmd = "shutdown" -> [c EXCEPT !.interfaces[i].shutdown = TRUE]
    [] proto = "ospf" /\ HasPrefix(cmd, "ip ospf hello-interval ") ->
         [c EXCEPT !.interfaces[i].ospf_hello =
                     After(cmd, "ip ospf hello-interval ")]
    [] /\ proto = "eigrp" /\ HasSection(c)
       /\ HasPrefix(cmd, "ip hello-interval eigrp " \o c.eigrp.as_number \o " ") ->
         [c EXCEPT !.interfaces[i].eigrp_hello =
                     After(cmd, "ip hello-interval eigrp "
                                  \o c.eigrp.as_number \o " ")]
    [] OTHER -> c

\* One line: st = [mode, intf, cfg], mode "exec", "config", "router" (the
\* section of the configuration), "router other" (another process of the
\* protocol) or "interface".  A line the mode does not know changes nothing.
DeviceLine(proto, st, cmd) ==
  LET c == st.cfg
      key == ProcessKey(proto)
      router == "router " \o proto \o " "
      no_router == "no router " \o proto \o " "
  IN CASE cmd = "end" -> [st EXCEPT !.mode = "exec"]
       [] st.mode = "exec" /\ cmd = "configure terminal" ->
            [st EXCEPT !.mode = "config"]
       [] st.mode = "exec" -> st
       [] HasPrefix(cmd, no_router) ->
            IF HasSection(c) /\ c[proto][key] = After(cmd, no_router)
            THEN [st EXCEPT !.mode = "config", !.cfg = NoSection(c)]
            ELSE [st EXCEPT !.mode = "config"]
       [] HasPrefix(cmd, router) ->
            IF ~HasSection(c)
            THEN [st EXCEPT !.mode = "router",
                            !.cfg = WithSection(c, proto,
                                      NewSection(proto, After(cmd, router)))]
            ELSE IF c[proto][key] = After(cmd, router)
            THEN [st EXCEPT !.mode = "router"]
            ELSE [st EXCEPT !.mode = "router other"]
       [] HasPrefix(cmd, "interface ") ->
            IF After(cmd, "interface ") \in DOMAIN c.interfaces
            THEN [st EXCEPT !.mode = "interface",
                            !.intf = After(cmd, "interface ")]
            ELSE st
       [] st.mode = "router" ->
            [st EXCEPT !.cfg = WithSection(c, proto,
                                 RouterLine(proto, c[proto], cmd))]
       [] st.mode = "interface" ->
            [st EXCEPT !.cfg = InterfaceLine(c, proto, st.intf, cmd)]
       [] OTHER -> st

RECURSIVE DeviceLines(_, _, _)
DeviceLines(proto, st, lines) ==
  IF lines = <<>> THEN st
  ELSE DeviceLines(proto, DeviceLine(proto, st, Head(lines)), Tail(lines))

\* The running configuration after the lines of a script, typed from
\* privileged exec mode.
DeviceExec(d, c, lines) ==
  DeviceLines(IF is_eigrp_router(d) THEN "eigrp" ELSE "ospf",
              [mode |-> "exec", intf |-> Eth, cfg |-> c], lines).cfg

\* ---- actions
\* ProblemDetector.scan_device on the device
dif_scan ==
  /\ dfPc = "start"
  /\ \E out \in OutputCases :
       /\ dfOutput' = out
       /\ dfIssues' = scan_problems(dfDevice, out, dfRunning, dfBaseline, dfPeer)
       /\ dfLog' = scan_log(dfDevice, out, dfRunning, dfBaseline, dfPeer,
                          FALSE)
       /\ dfLegacy' = legacy_eigrp_log(dfDevice, out, dfPeer)
  /\ dfPc' = "scanned"
  /\ UNCHANGED <<runVars, drvVars, fixVars, cmVars, dfDevice, dfBaseline, dfRunning,
                 dfPeer, dfFixed, dfAgain>>

\* The handler of the Problem's category applies its commands and no write
\* fails (FixApplier.apply_interface_fix / apply_eigrp_fix / apply_ospf_fix).
dif_apply_fix ==
  /\ dfPc = "scanned"
  /\ \E issue \in dfIssues :
       LET item == [category |-> issue.category, device |-> dfDevice,
                    problem |-> issue]
           commands == FixCommands(item)
       IN /\ commands # <<>>
          /\ dfRunning' = DeviceExec(dfDevice, dfRunning,
                                     ApplyScript(item, commands))
          /\ dfFixed' = issue
  /\ dfPc' = "fixed"
  /\ UNCHANGED <<runVars, drvVars, fixVars, cmVars, dfDevice, dfBaseline, dfPeer,
                 dfOutput, dfIssues, dfAgain, dfLog, dfLegacy>>

\* The next scan of the device, every read whole.
dif_rescan ==
  /\ dfPc = "fixed"
  /\ dfAgain' = scan_problems(dfDevice, FullOutput, dfRunning, dfBaseline, dfPeer)
  /\ dfLog' = scan_log(dfDevice, FullOutput, dfRunning, dfBaseline, dfPeer,
                     get_interface_status(dfOutput.summary))
  /\ dfLegacy' = legacy_eigrp_log(dfDevice, FullOutput, dfPeer)
  /\ dfPc' = "rescanned"
  /\ UNCHANGED <<runVars, drvVars, fixVars, cmVars, dfDevice, dfBaseline, dfRunning,
                 dfPeer, dfOutput, dfIssues, dfFixed>>

NextDif == dif_scan \/ dif_apply_fix \/ dif_rescan

SpecDif == InitDif /\ [][NextDif]_vars

\* ======================================================================
\* core/config_manager.py: one ConfigManager and the stable snapshot
\* ======================================================================
\* Devices looked up: R1 and R4 may be in the snapshot, R2 never is.
CmDevices == {1, 2, 4}
CmStored == {1, 4}
DefaultK == "0 1 0 1 0 0"
KValues == {DefaultK, "0 2 0 1 0 0"}

\* ConfigManager._parse_device_config: the entry of a device of the
\* snapshot, with the K-values of its EIGRP section.
CmRecords(d) ==
  IF is_eigrp_router(d)
  THEN {[hostname |-> d,
         eigrp |-> [as_number |-> a, networks |-> {},
                    passive_interfaces |-> {}, is_stub |-> FALSE,
                    k_values |-> k],
         ospf |-> EmptyDict,
         interfaces |-> [i \in {Eth} |->
                           [name |-> i, ip_address |-> "10.0.0.1",
                            shutdown |-> sh]]] :
          <<a, k, sh>> \in {<<"1", DefaultK, FALSE>>, <<"1", DefaultK, TRUE>>,
                            <<"2", "0 2 0 1 0 0", FALSE>>}}
  ELSE {[hostname |-> d,
         eigrp |-> EmptyDict,
         ospf |-> [process_id |-> a, networks |-> {},
                   passive_interfaces |-> {}, stub_areas |-> {}],
         interfaces |-> [i \in {Eth} |->
                           [name |-> i, ip_address |-> "10.0.0.1",
                            shutdown |-> sh]]] :
          <<a, sh>> \in {<<"10", FALSE>>, <<"1", TRUE>>}}

\* What storage can hold: no config_stable file, or a file with the entries
\* of some devices.
Snapshots ==
  UNION {{f \in [ds -> UNION {CmRecords(d) : d \in ds}] :
            \A d \in ds : f[d] \in CmRecords(d)} : ds \in SUBSET CmStored}
CmStores ==
  {[exists |-> FALSE, devices |-> <<>>]}
    \cup {[exists |-> TRUE, devices |-> f] : f \in Snapshots}

\* ConfigManager.load_latest_baseline: {} and the cache untouched when there
\* is no file, else the parsed file, which becomes the cache.
load_latest_baseline(store, cache) ==
  IF ~store.exists THEN cache ELSE store.devices

\* A lookup that does not load: the cache as it is
cache_as_is(store, cache) == cache

\* The cache after ConfigManager.get_device_baseline:
\* if not self.baseline_cache: self.load_latest_baseline()
cache_after_lookup(store, cache) ==
  IF cache = <<>> THEN load_latest_baseline(store, cache) ELSE cache

\* A lookup that answers an absent device with the entry of another one
get_device_baseline_any(cache, d) ==
  IF d \in DOMAIN cache \/ DOMAIN cache = {} THEN Get(cache, d, EmptyDict)
  ELSE cache[CHOOSE k \in DOMAIN cache : TRUE]

\* ConfigManager.get_device_baseline: self.baseline_cache.get(device_name, {})
get_device_baseline(cache, d) == Get(cache, d, EmptyDict)

\* ConfigManager.get_expected_k_values
get_expected_k_values(b) == Get(Get(b, "eigrp", EmptyDict), "k_values", DefaultK)

\* ConfigManager.get_ospf_process_id
get_ospf_process_id(b) == Get(Get(b, "ospf", EmptyDict), "process_id", "10")

\* ConfigManager.get_interface_ip_config
get_interface_ip_config(b, interface) ==
  Get(Get(b, "interfaces", EmptyDict), interface, EmptyDict)

CmOps == {"get_device_baseline", "get_eigrp_as_number", "get_expected_k_values",
          "get_ospf_process_id", "should_interface_be_up",
          "get_interface_ip_config"}

\* What a lookup of ConfigManager returns from the entry b of the device
cm_return(op, b) ==
  CASE op = "get_device_baseline" -> b
    [] op = "get_eigrp_as_number" -> get_eigrp_as_number(b)
    [] op = "get_expected_k_values" -> get_expected_k_values(b)
    [] op = "get_ospf_process_id" -> get_ospf_process_id(b)
    [] op = "should_interface_be_up" -> should_interface_be_up(b, Eth)
    [] op = "get_interface_ip_config" -> get_interface_ip_config(b, Eth)

InitCm ==
  /\ RunIdle
  /\ DrvIdle
  /\ FixIdle
  /\ DifIdle
  /\ cmStore \in CmStores
  /\ baseline_cache = <<>>
  /\ cmCall = [op |-> "new", device |-> 1]
  /\ cmPrev = [op |-> "new", device |-> 1]

\* One lookup of a device on the manager
cm_lookup ==
  /\ cmCall.op # "idle"
  /\ \E op \in CmOps, d \in CmDevices :
       LET cache == cache_after_lookup(cmStore, baseline_cache)
       IN /\ baseline_cache' = cache
          /\ cmCall' = [op |-> op, device |-> d,
                        ret |-> cm_return(op, get_device_baseline(cache, d))]
  /\ cmPrev' = cmCall
  /\ UNCHANGED <<runVars, drvVars, fixVars, difVars, cmStore>>

\* get_eigrp_fix_commands(issue_type, issue_details, device_name,
\* config_manager) with the manager passed, or with none and a ConfigManager
\* of its own; get_ospf_fix_commands(issue_type, issue_details, device_name),
\* whose process id comes from the module's own get_ospf_process_id.  Neither
\* takes a Session, writes the Problem or saves a snapshot.
\* config_manager.get_eigrp_as_number(device_name) in get_eigrp_fix_commands:
\* the cache the AS number is served from
fix_commands_cache(store, cache) == cache_after_lookup(store, cache)

FixPlanProblems(d) ==
  IF is_eigrp_router(d) THEN ProblemCatalogue["eigrp"]
  ELSE ProblemCatalogue["ospf"]
cm_fix_commands ==
  /\ cmCall.op # "idle"
  /\ \E d \in CmDevices, passed \in BOOLEAN :
       \E problem \in FixPlanProblems(d) :
         LET cache == fix_commands_cache(cmStore,
                        IF passed /\ is_eigrp_router(d) THEN baseline_cache
                        ELSE <<>>)
             asn == get_eigrp_as_number(get_device_baseline(cache, d))
         IN /\ baseline_cache' = IF passed /\ is_eigrp_router(d) THEN cache
                                  ELSE baseline_cache
            /\ cmCall' = [op |-> "get_fix_commands", device |-> d,
                          problem |-> problem,
                          ret |-> IF is_eigrp_router(d)
                                  THEN eigrp_fix_commands_as(asn, problem.type,
                                                             problem)
                                  ELSE get_ospf_fix_commands(problem.type,
                                                             problem)]
  /\ cmPrev' = cmCall
  /\ UNCHANGED <<runVars, drvVars, fixVars, difVars, cmStore>>

\* interface_tree.parse_interface_output on a summary whose line of
\* Ethernet0/0 shows it administratively down or up, the baseline served by
\* the manager, and what fix_interface_shutdown writes for each Problem.
cm_parse_interface_output ==
  /\ cmCall.op # "idle"
  /\ \E d \in CmDevices, down \in BOOLEAN :
       LET cache == cache_after_lookup(cmStore, baseline_cache)
           c == [interfaces |-> [i \in {Eth} |-> [shutdown |-> down]]]
           problems == parse_interface_output(c, get_device_baseline(cache, d))
           item(p) == [category |-> "interfaces", device |-> d, problem |-> p]
       IN /\ baseline_cache' = cache
          /\ cmCall' = [op |-> "parse_interface_output", device |-> d,
                        down |-> down, ret |-> problems,
                        written |-> {ApplyScript(item(p), FixCommands(item(p))) :
                                       p \in problems}]
  /\ cmPrev' = cmCall
  /\ UNCHANGED <<runVars, drvVars, fixVars, difVars, cmStore>>

\* The 'metric weights' lines of the EIGRP section of a running
\* configuration: the device prints the line only for K-values that are not
\* the default ones.
MetricWeightsLines(live) == IF live = DefaultK THEN {} ELSE {live}

\* eigrp_tree.check_metric_weights on a configuration that was read whole
check_metric_weights(live, b) ==
  LET expected_k == Get(Get(b, "eigrp", EmptyDict), "k_values", "0 1 0 1 0 0")
  IN {[type |-> "non-default k-values", category |-> "eigrp",
       values |-> current_k, expected |-> expected_k] :
        current_k \in {k \in MetricWeightsLines(live) : k # expected_k}}

\* check_metric_weights(tn, device_name, config_manager) on an EIGRP router
\* whose K-values are live
cm_check_metric_weights ==
  /\ cmCall.op # "idle"
  /\ \E d \in {e \in CmDevices : is_eigrp_router(e)}, live \in KValues :
       LET cache == cache_after_lookup(cmStore, baseline_cache)
       IN /\ baseline_cache' = cache
          /\ cmCall' = [op |-> "check_metric_weights", device |-> d,
                        live |-> live,
                        ret |-> check_metric_weights(
                                  live, get_device_baseline(cache, d))]
  /\ cmPrev' = cmCall
  /\ UNCHANGED <<runVars, drvVars, fixVars, difVars, cmStore>>

\* ---- the debug branch of troubleshoot_eigrp / troubleshoot_ospf
\*   if enable_*_debug(tn):
\*       debug_output = gather_*_debug(tn, wait_time=...)
\*       disable_debug(tn)
\* The tn calls of the three functions in statement order: each function is
\* one try whose except returns False (None from gather).
enable_debug_calls(d) ==
  ResetCalls \o <<IF is_eigrp_router(d) THEN "debug eigrp packets"
                  ELSE "debug ip ospf adj", ReadEager>>
gather_debug_calls == <<"show logging", ReadEager>>
disable_debug_calls == ResetCalls \o <<"no debug all", ReadEager>>

\* The calls of a function that complete when the calls at the places in
\* faulty raise; the first call of the function is at place first.
Completed(calls, first, faulty) ==
  LET raised == {i \in 1..Len(calls) : first + i - 1 \in faulty}
  IN IF raised = {} THEN calls
     ELSE SubSeq(calls, 1, (CHOOSE i \in raised : \A j \in raised : i <= j) - 1)

\* The calls the branch completes on the Session, with the value of
\* enable_*_debug and whether gather_*_debug returned text.
debug_branch(d, faulty) ==
  LET en == Completed(enable_debug_calls(d), 1, faulty)
      enabled == en = enable_debug_calls(d)
      g1 == Len(enable_debug_calls(d)) + 1
      ga == Completed(gather_debug_calls, g1, faulty)
      d1 == g1 + Len(gather_debug_calls)
      di == Completed(disable_debug_calls, d1, faulty)
  IN [enabled |-> enabled,
      captured |-> enabled /\ ga = gather_debug_calls,
      calls |-> IF enabled THEN en \o ga \o di ELSE en]

DebugPlaces ==
  1..(Len(enable_debug_calls(1)) + Len(gather_debug_calls)
        + Len(disable_debug_calls))
\* No call raises, one call raises, or the stream is dead from a call of
\* the capture on.
FaultyPlaces ==
  {{}} \cup {{k} : k \in DebugPlaces}
       \cup {{j \in DebugPlaces : j >= k} :
               k \in {Len(enable_debug_calls(1)) + 1,
                      Len(enable_debug_calls(1)) + 2}}

\* The debug branch on the Session of an EIGRP or an OSPF router, before the
\* manager has been asked anything (the branch does not use it).
cm_debug_branch ==
  /\ cmCall.op = "new"
  /\ \E d \in {1, 4}, faulty \in FaultyPlaces :
       cmCall' = [op |-> "debug_branch", device |-> d, faulty |-> faulty,
                  ret |-> debug_branch(d, faulty)]
  /\ cmPrev' = cmCall
  /\ UNCHANGED <<runVars, drvVars, fixVars, difVars, cmStore, baseline_cache>>

\* ConfigManager.save_baseline(device_configs, tag="stable"): the file is
\* written and the cache emptied.
cm_save_baseline ==
  /\ cmCall.op # "idle"
  /\ \E f \in Snapshots :
       cmStore' = [exists |-> TRUE, devices |-> f]
  /\ baseline_cache' = <<>>
  /\ cmCall' = [op |-> "save_baseline", device |-> 1]
  /\ cmPrev' = [op |-> "new", device |-> 1]
  /\ UNCHANGED <<runVars, drvVars, fixVars, difVars>>

NextCm ==
  \/ cm_lookup
  \/ cm_fix_commands
  \/ cm_parse_interface_output
  \/ cm_check_metric_weights
  \/ cm_debug_branch
  \/ cm_save_baseline

SpecCm == InitCm /\ [][NextCm]_vars

\* ---- claims about the detection trees
\* Two reports of one Problem: same category and type, about the same
\* interface, network and area.
SameProblem(p, q) ==
  /\ p.category = q.category
  /\ p.type = q.type
  /\ p.interface = q.interface
  /\ p.network = q.network
  /\ p.area = q.area

\* C13: after the commands of a Problem with a non-empty fix plan were
\* applied with no failed write, the next scan of the device against the same
\* baseline does not report that Problem again.  (It does for a mismatch
\* read from the debug log, whose commands name no interface of the device
\* or restate the defaults, and for a Problem of a section whose process
\* number is not the expected one, whose commands address the expected one.)
C13_RemediationIdempotent ==
  dfPc = "rescanned" => \A q \in dfAgain : ~SameProblem(dfFixed, q)

\* C14: a device whose running configuration equals its baseline in every
\* compared setting, with its adjacency up and every read whole, is reported
\* with no Problem in any category.
C14_NoFalsePositives ==
  (dfPc = "scanned" /\ dfPeer = "up" /\ dfOutput = FullOutput
     /\ dfRunning = dfBaseline)
    => dfIssues = {}

\* The networks a configuration records for the device's protocol.
NetworksOf(c) == IF HasSection(c) THEN c[Protocol(c)].networks ELSE {}

NetworkIssues == {q \in dfIssues : q.type \in {"missing network", "extra network"}}

\* C15: when the baseline of the device records no network for its protocol,
\* the scan reports no 'missing network' and no 'extra network', whatever
\* networks the running configuration holds.
C15_EmptyBaselineSuppresses ==
  (dfPc = "scanned" /\ NetworksOf(dfBaseline) = {}) => NetworkIssues = {}

\* The network a network Problem is about, as the configuration records it.
NetworkOf(q) ==
  IF q.category = "ospf"
  THEN [network |-> q.network, wildcard |-> q.wildcard, area |-> q.area]
  ELSE q.network

\* C16: when the baseline records a non-empty network set B and the running
\* configuration holds L (read whole), the network Problems of the scan are
\* one 'missing network' for each element of B \ L and one 'extra network'
\* for each element of L \ B.
C16_NetworkSetDifference ==
  (dfPc = "scanned" /\ dfOutput = FullOutput /\ NetworksOf(dfBaseline) # {})
    => {<<q.type, NetworkOf(q)>> : q \in NetworkIssues}
         = {<<"missing network", n>> :
              n \in NetworksOf(dfBaseline) \ NetworksOf(dfRunning)}
           \cup {<<"extra network", n>> :
                   n \in NetworksOf(dfRunning) \ NetworksOf(dfBaseline)}

\* Passive interfaces and stub settings a configuration records for the
\* device's protocol (EIGRP has one stub flag, OSPF a set of stub areas).
PassiveOf(c) == IF HasSection(c) THEN c[Protocol(c)].passive_interfaces ELSE {}
StubsOf(c) ==
  IF ~HasSection(c) THEN {}
  ELSE IF Protocol(c) = "eigrp"
  THEN (IF c.eigrp.is_stub THEN {None} ELSE {})
  ELSE c.ospf.stub_areas

PassiveReports ==
  {<<q.type, q.interface>> :
     q \in {r \in dfIssues :
              r.type \in {"passive interface", "missing passive interface"}}}

StubReports ==
  {<<IF q.type \in {"missing stub configuration", "missing stub area"}
     THEN "missing" ELSE "unexpected", q.area>> :
     q \in {r \in dfIssues :
              r.type \in {"stub configuration", "missing stub configuration",
                          "unexpected stub area", "missing stub area"}}}

\* C17: with the configuration read whole, the passive-interface Problems
\* of the scan are one 'missing' for each interface of baseline \ running and
\* one unexpected for each interface of running \ baseline, and the stub
\* Problems likewise for the stub settings.
C17_PassiveStubSetDifference ==
  (dfPc = "scanned" /\ dfOutput = FullOutput) =>
    /\ PassiveReports
         = {<<"missing passive interface", i>> :
              i \in PassiveOf(dfBaseline) \ PassiveOf(dfRunning)}
           \cup {<<"passive interface", i>> :
                   i \in PassiveOf(dfRunning) \ PassiveOf(dfBaseline)}
    /\ StubReports
         = {<<"missing", a>> : a \in StubsOf(dfBaseline) \ StubsOf(dfRunning)}
           \cup {<<"unexpected", a>> :
                   a \in StubsOf(dfRunning) \ StubsOf(dfBaseline)}

\* ---- claims about the connection phase of a run
\* Selected devices that have a console port and whose endpoint is down.
FailedDevices == (Range(device_names) \cap unreachable) \ noPort

\* A task of the scan ran the detection trees on d.
Scanned(d) ==
  \E w \in 1..Len(tasks) :
    tasks[w] = d /\ (variant = "refactored" \/ w \in opened)

\* C18: when the scan has returned, a selected device whose connection
\* failed got exactly one connect_device call, has no session registered,
\* was not scanned and has no entry in the results, and every selected device
\* that could be connected was taken through the scan.
C18_FailedConnectionSkipped ==
  pcMain = "scanned" =>
    /\ \A d \in FailedDevices :
         /\ attempts[d] = 1
         /\ d \notin DOMAIN connections
         /\ ~Scanned(d)
         /\ \A c \in Categories : d \notin DOMAIN detected_issues[c]
    /\ \A d \in Range(device_names) \ (unreachable \cup noPort) :
         \E w \in 1..Len(tasks) : tasks[w] = d /\ wpc[w] = "done"

\* The scan's Problems had the named collection step failed outright (the
\* getter returning None) instead of draining what it drained.
AsCollectionFailure(s) ==
  scan_problems(dfDevice, [dfOutput EXCEPT ![s] = "fault"], dfRunning,
                dfBaseline, dfPeer)

\* C19: a collection step (interface summary, protocol configuration,
\* neighbor table, per-interface detail) whose drained output is shorter
\* than the minimum plausible length counts as a collection failure: the
\* scan reports exactly the Problems it reports when that step returns
\* nothing, the short text being parsed by no check.
C19_ShortOutputIsFailure ==
  dfPc = "scanned" =>
    \A s \in Steps : dfOutput[s] = "short" => dfIssues = AsCollectionFailure(s)

\* C20: when the scan has returned, every Problem list that a check of a
\* category found on a device is in the results under that device, whatever
\* failed or raised in a later step of the category or in another category
\* (for a device that one task scanned).
C20_OnlyFailedCheckDiscarded ==
  scanRet = "returned" =>
    \A w \in 1..Len(tasks) : \A c \in Categories :
      (wseen[w][c] # <<>> /\ SameDevice(w) = {w}) =>
        /\ tasks[w] \in DOMAIN detected_issues[c]
        /\ detected_issues[c][tasks[w]] = wseen[w][c]

\* C21: no operation of the session driver lets an exception reach its
\* caller: a fault of the stream during the call ends it with False, None or
\* an empty result.
C21_DriverNeverRaises == drvRet # "raised"

\* The routers of the EIGRP domain and of the OSPF domain of the lab.
EigrpRouters == {1, 2, 3}
OspfRouters == {4, 5, 6}

\* Log entries of the EIGRP collector and of the OSPF collector: their
\* commands and their lookups of the protocol's part of the baseline.
EigrpEntries ==
  {Wr("show ip eigrp neighbors"), Wr("show ip eigrp interfaces detail " \o Eth),
   Wr("debug eigrp packets"), Bl("eigrp")}
OspfEntries ==
  {Wr("show ip ospf"), Wr("show ip ospf neighbor"), Wr("debug ip ospf adj"),
   Bl("ospf")}

\* C22: a scan of a device outside a protocol's domain writes no command
\* of that protocol's collector, looks up nothing of that protocol in the
\* baseline and reports no Problem of that category.
C22_NonParticipantUntouched ==
  /\ dfDevice \notin EigrpRouters =>
       /\ \A i \in 1..Len(dfLog) : dfLog[i] \notin EigrpEntries
       /\ \A q \in dfIssues \cup dfAgain : q.category # "eigrp"
  /\ dfDevice \notin OspfRouters =>
       /\ \A i \in 1..Len(dfLog) : dfLog[i] \notin OspfEntries
       /\ \A q \in dfIssues \cup dfAgain : q.category # "ospf"

\* R4 was scanned: the OSPF collector asked for the neighbor table and
\* reported a Problem, and nothing of EIGRP is in the log.
C22_Witness ==
  /\ dfPc = "scanned"
  /\ dfDevice = 4
  /\ \E i \in 1..Len(dfLog) : dfLog[i] = Wr("show ip ospf neighbor")
  /\ \E q \in dfIssues : q.category = "ospf"
  /\ \A i \in 1..Len(dfLog) : dfLog[i] \notin EigrpEntries

\* C23: within one run the baseline snapshot is read from storage at most
\* once: a scan of a device, with no stable snapshot saved meanwhile, loads
\* the snapshot no more than one time and serves every other lookup from
\* the cache.
StorageReads(log) == Cardinality({i \in 1..Len(log) : log[i] = Ld})
C23_BaselineReadOnce == StorageReads(dfLog) <= 1

\* C24: looking up a device that is absent from the baseline yields an empty
\* Baseline, and every derived lookup returns its default: AS number '1',
\* OSPF process id '10', the default K-values, an empty interface record,
\* interface not expected to be up.
CmAbsent == cmCall.op \in CmOps /\ cmCall.device \notin DOMAIN baseline_cache
CmDefault(op) ==
  CASE op = "get_device_baseline" -> EmptyDict
    [] op = "get_eigrp_as_number" -> "1"
    [] op = "get_expected_k_values" -> "0 1 0 1 0 0"
    [] op = "get_ospf_process_id" -> "10"
    [] op = "should_interface_be_up" -> FALSE
    [] op = "get_interface_ip_config" -> EmptyDict
SamePlanInputs ==
  /\ cmCall.op = "get_fix_commands"
  /\ cmPrev.op = "get_fix_commands"
  /\ cmCall.device = cmPrev.device
  /\ cmCall.problem = cmPrev.problem
FixPlanStep ==
  cmCall'.op = "get_fix_commands" =>
    UNCHANGED <<runVars, drvVars, fixVars, difVars, cmStore>>
NoSession(i) == fxLog[i].item.device \notin fxConn
C26_FixPhaseReusesSessions ==
  /\ [](\A i \in 1..Len(fxLog) :
          NoSession(i) =>
            /\ fxLog[i].sent = <<>>
            /\ ~fxLog[i].asked
            /\ \A r \in 1..Len(fix_results) : fix_results[r].item # i)
  /\ [][fxConn' = fxConn]_vars
\* R4 had no Session and its Problem was skipped; R1's fix was written on
\* its Session.
C26_Witness ==
  /\ fxPc = "returned"
  /\ \E i, j \in 1..Len(fxLog) :
       /\ NoSession(i) /\ fxLog[i].sent = <<>>
       /\ ~NoSession(j) /\ fxLog[j].ok

\* C27: an interface the live interface table shows administratively down
\* yields exactly one Problem, of type shutdown and for that interface, if
\* the Baseline gives it an address and does not mark it shutdown, and no
\* Problem otherwise; what is written for the Problem is: enter that
\* interface, no shutdown, leave configuration mode.
BaselineExpectsUp ==
  /\ cmCall.device \in DOMAIN baseline_cache
  /\ "ip_address" \in DOMAIN baseline_cache[cmCall.device].interfaces[Eth]
  /\ ~baseline_cache[cmCall.device].interfaces[Eth].shutdown
AdminDownParsed == cmCall.op = "parse_interface_output" /\ cmCall.down
C27_WitnessShutdownInBaseline ==
  /\ AdminDownParsed
  /\ cmCall.device \in DOMAIN baseline_cache
  /\ baseline_cache[cmCall.device].interfaces[Eth].shutdown
  /\ cmCall.ret = {}

\* C28: whenever the live EIGRP K-values differ from the Baseline K-values,
\* the check reports exactly one Problem, of type k-value mismatch, carrying
\* the live values as current and the Baseline values as expected.
BaselineK ==
  IF cmCall.device \in DOMAIN baseline_cache
  THEN baseline_cache[cmCall.device].eigrp.k_values ELSE DefaultK
C28_KValueMismatch ==
  (cmCall.op = "check_metric_weights" /\ cmCall.live # BaselineK) =>
    /\ Cardinality(cmCall.ret) = 1
    /\ \A p \in cmCall.ret :
         /\ p.type = "k-value mismatch"
         /\ Get(p, "current", None) = cmCall.live
         /\ p.expected = BaselineK
\* The same with the name the check gives the type and the field: one
\* Problem for every difference.
C28_OneProblemPerDifference ==
  (cmCall.op = "check_metric_weights" /\ cmCall.live # BaselineK) =>
    /\ Cardinality(cmCall.ret) = 1
    /\ \A p \in cmCall.ret :
         /\ p.type = "non-default k-values"
         /\ p.values = cmCall.live
         /\ p.expected = BaselineK
\* the Problem as the check builds it, for Baseline default and live changed
C28_Reported ==
  /\ cmCall.op = "check_metric_weights"
  /\ cmCall.live = "0 2 0 1 0 0"
  /\ BaselineK = DefaultK
  /\ cmCall.ret = {[type |-> "non-default k-values", category |-> "eigrp",
                    values |-> "0 2 0 1 0 0", expected |-> DefaultK]}

\* C29: for each stub area of the live OSPF configuration that the Baseline
\* does not have, the scan reports exactly one 'unexpected stub area' Problem
\* with that area and should_be_stub false; its FixPlan is: enter the OSPF
\* process, remove the stub flag of that area, end; and applying it to a
\* device that runs that process changes nothing of the running
\* configuration but that area's stub flag.
UnexpectedStub(a) ==
  {q \in dfIssues : q.type = "unexpected stub area" /\ q.area = a}
StubPlan(q) ==
  FixCommands([category |-> "ospf", device |-> dfDevice, problem |-> q])
OspfConfigRead ==
  /\ dfPc = "scanned"
  /\ is_ospf_router(dfDevice)
  /\ dfOutput.config = "full"
StubFixStep ==
  (dfPc = "scanned" /\ dfPc' = "fixed"
     /\ dfFixed'.type = "unexpected stub area"
     /\ dfRunning.ospf.process_id = "10") =>
    dfRunning' = [dfRunning EXCEPT
                    !.ospf.stub_areas = @ \ {dfFixed'.area}]
StaticIssues ==
  IF is_eigrp_router(dfDevice)
  THEN eigrp_all_issues(dfOutput, dfRunning, dfBaseline)
  ELSE ospf_all_issues(dfOutput, dfRunning, ospf_get_device_baseline(dfBaseline))
DebugSequence ==
  IF is_eigrp_router(dfDevice)
  THEN <<Wr("debug eigrp packets"), Ev("sleep", "5"), Wr("show logging"),
         Wr("no debug all")>>
  ELSE <<Wr("debug ip ospf adj"), Ev("sleep", "10"), Wr("show logging"),
         Wr("no debug all")>>
DebugRan ==
  \E i \in 1..Len(dfLog) :
    i + 3 <= Len(dfLog) /\ SubSeq(dfLog, i, i + 3) = DebugSequence
ProtocolIssues == {q \in dfIssues : q.category # "interfaces"}
EmptyTable(reads) ==
  /\ dfPc = "scanned"
  /\ dfOutput.neighbors \in reads
  /\ dfPeer # "up"
  /\ StaticIssues = {}
C30_DebugOnEmptyTable ==
  EmptyTable({"full", "banner"}) =>
    /\ DebugRan
    /\ dfPeer = "down" => ProtocolIssues = {}
\* The same for a table none of whose other lines holds a digit
C30_DebugOnBareTable ==
  EmptyTable({"full"}) =>
    /\ DebugRan
    /\ dfPeer = "down" => ProtocolIssues = {}
C30_BareTableDebugged ==
  /\ EmptyTable({"full"})
  /\ dfDevice = 1
  /\ dfPeer = "down"
  /\ DebugRan
  /\ ProtocolIssues = {}
\* no neighbor entry, no Problem, and no debug
C30_TitleCounted ==
  /\ EmptyTable({"banner"})
  /\ ~DebugRan

\* C31: protocol debug logging is never enabled during a scan unless the
\* neighbor count is zero and the preceding checks of that collector found
\* no Problem.
DebugEnabled(log) ==
  \E i \in 1..Len(log) :
    log[i] \in {Wr("debug eigrp packets"), Wr("debug ip ospf adj")}
NoNeighborCounted ==
  /\ dfOutput.neighbors \in {"full", "banner", "short"}
  /\ neighbor_count(dfOutput.neighbors, dfPeer) = 0
C31_DebugOnlyAsFallback ==
  dfPc = "scanned" =>
    /\ DebugEnabled(dfLog) => (NoNeighborCounted /\ StaticIssues = {})
    /\ DebugEnabled(dfLegacy) =>
         (NoNeighborCounted /\ legacy_eigrp_all_issues(dfOutput, dfRunning) = {})
\* The same for the collectors of Capstone_AI_refactored alone
C31_RefactoredDebugOnlyAsFallback ==
  dfPc = "scanned" =>
    (DebugEnabled(dfLog) => (NoNeighborCounted /\ StaticIssues = {}))
C31_RefactoredDebugged ==
  /\ dfPc = "scanned"
  /\ DebugEnabled(dfLog)
  /\ NoNeighborCounted
C31_LegacyDebugsAfterProblem ==
  /\ dfPc = "scanned"
  /\ DebugEnabled(dfLegacy)
  /\ legacy_eigrp_all_issues(dfOutput, dfRunning) # {}

\* C32: within one device's protocol scan the checks run in the declared
\* order: process/AS, passive-interface, stub, network-statement,
\* per-interface timers, router-id, area, the neighbor-count debug fallback.
DeclaredRank ==
  [n \in {"as", "process id", "passive interface", "stub", "network",
          "timers", "router id", "area", "neighbors"} |->
     CASE n \in {"as", "process id"} -> 1
       [] n = "passive interface" -> 2
       [] n = "stub" -> 3
       [] n = "network" -> 4
       [] n = "timers" -> 5
       [] n = "router id" -> 6
       [] n = "area" -> 7
       [] n = "neighbors" -> 8]
DeclaredChecks(log) ==
  {i \in 1..Len(log) : log[i].op = "check" /\ log[i].arg \in DOMAIN DeclaredRank}
InDeclaredOrder(log, names) ==
  \A i, j \in DeclaredChecks(log) :
    (i < j /\ log[i].arg \in names /\ log[j].arg \in names) =>
      DeclaredRank[log[i].arg] < DeclaredRank[log[j].arg]
C32_DeclaredCheckOrder ==
  dfPc = "scanned" => InDeclaredOrder(dfLog, DOMAIN DeclaredRank)
\* The order holds between every two checks but stub / passive-interface
\* and router-id / area.
C32_OrderApartFromSwaps ==
  dfPc = "scanned" =>
    /\ InDeclaredOrder(dfLog, DOMAIN DeclaredRank \ {"stub", "router id"})
    /\ InDeclaredOrder(dfLog, DOMAIN DeclaredRank \ {"passive interface", "area"})
C32_StubBeforePassive ==
  /\ dfPc = "scanned"
  /\ dfDevice = 1
  /\ \E i, j \in 1..Len(dfLog) :
       i < j /\ dfLog[i] = Ck("stub") /\ dfLog[j] = Ck("passive interface")

\* ------------------------------------------------------------- claim C33
\* The shell, in the given mode and with the given input line, receives
\* lines[n] and the lines after it of a call that transmits planLen plan
\* commands: 'configure terminal' reaches it in privileged mode, the plan
\* commands in configuration mode, and what follows the exit outside
\* configuration mode.
RECURSIVE InProtocol(_, _, _, _, _)
InProtocol(mode, partial, lines, n, planLen) ==
  \/ n > Len(lines)
  \/ /\ n = Len(ResetScript) + 1 => mode = "privileged"
     /\ (n > Len(ResetScript) + 1 /\ n <= Len(ResetScript) + 1 + planLen)
          => mode \in ConfigModes
     /\ n > Len(ResetScript) + 2 + planLen => mode \notin ConfigModes
     /\ InProtocol(ShellMode(mode, partial, lines[n]), FALSE, lines, n + 1,
                   planLen)

\* The plan's commands that are transmitted (annotation lines are not).
Transmitted(commands) == SelectSeq(commands, LAMBDA c : ~startswith_hash(c))
Persist(item) == IF item.category = "ospf" THEN <<"write memory">> ELSE <<>>
\* reset, enter, plan, exit, persist, verification (its reset, then the query)
ApplyOrder(item, commands) ==
  ResetScript \o <<"configure terminal">> \o Transmitted(commands)
    \o <<"end">> \o Persist(item) \o VerifyScript(item)

\* C33: applying a FixPlan on a Session proceeds in the order enter
\* configuration mode, the plan's commands, exit configuration mode,
\* optionally persist, the verification query; every plan command reaches
\* the shell in configuration mode and the verification query reaches it
\* outside configuration mode, whatever state the shell was in before.
\* Stated of the Problem handled last, which every handled Problem once is.
C33_ApplyProtocol ==
  fxLog # <<>> =>
    LET e == fxLog[Len(fxLog)] IN
      /\ IsPrefix(e.sent, ApplyOrder(e.item, e.commands))
      /\ \A mode \in ShellModes, partial \in BOOLEAN :
           InProtocol(mode, partial, e.sent, 1, Len(Transmitted(e.commands)))
\* A plan with an annotation line was applied and verified, and an OSPF
\* plan was applied, persisted and verified.
C33_Witness ==
  \E i, j \in 1..Len(fxLog) :
    /\ fxLog[i].ok
    /\ Len(Transmitted(fxLog[i].commands)) \in 1..(Len(fxLog[i].commands) - 1)
    /\ fxLog[i].sent = ApplyOrder(fxLog[i].item, fxLog[i].commands)
    /\ fxLog[j].ok
    /\ fxLog[j].item.category = "ospf"
    /\ fxLog[j].sent = ApplyOrder(fxLog[j].item, fxLog[j].commands)

\* ------------------------------------------------------------- claim C34
\* Fields of the Problem from which get_eigrp_fix_commands /
\* get_ospf_fix_commands fill the interface, network, area, timer and
\* K-value parameters of the commands of a type (issue_details.get(...)).
FieldsRead(category, type) ==
  CASE category = "eigrp" /\ type \in {"k-value mismatch", "non-default k-values"}
         -> {"expected"}
    [] category = "eigrp" /\ type = "passive interface" -> {"interface"}
    [] category = "eigrp" /\ type \in {"missing network", "extra network"}
         -> {"network"}
    [] category = "eigrp" /\ type \in {"eigrp hello timer mismatch",
                                       "eigrp hold timer mismatch",
                                       "eigrp timer mismatch"}
         -> {"interface", "expected_hello", "expected_hold"}
    [] category = "ospf" /\ type \in {"hello interval mismatch",
                                      "dead interval mismatch",
                                      "ospf timer mismatch"}
         -> {"interface", "expected_hello", "expected_dead"}
    [] category = "ospf" /\ type = "passive interface" -> {"interface"}
    [] category = "ospf" /\ type \in {"missing network", "extra network"}
         -> {"network", "wildcard", "area"}
    [] category = "ospf" /\ type \in {"stub area", "unexpected stub area",
                                      "missing stub area"}
         -> {"area"}
    [] category = "ospf" /\ type = "area mismatch"
         -> {"interface", "expected_area"}
    [] category = "interfaces" -> {"interface"}
    [] OTHER -> {}

HasFixPlan(d, p) ==
  FixCommands([category |-> p.category, device |-> d, problem |-> p]) # <<>>
CarriesFixFields(p) ==
  \A k \in FieldsRead(p.category, p.type) : p[k] # None

\* C34: every Problem a collector emits whose type has a non-empty FixPlan
\* carries every field that FixPlan reads.
C34_ProblemsCarryFixFields ==
  \A p \in dfIssues \cup dfAgain :
    HasFixPlan(dfDevice, p) => CarriesFixFields(p)
\* Every Problem but those parse_eigrp_debug and parse_ospf_debug build from
\* a line of the debug log carries them.
C34_StaticProblemsCarryFixFields ==
  \A p \in dfIssues \cup dfAgain :
    (HasFixPlan(dfDevice, p)
       /\ p.type \notin {"k-value mismatch", "hello interval mismatch"})
      => CarriesFixFields(p)
\* A timer Problem of parse_ospf_debug: no interface, no expected timers
C34_TimerProblemFromDebug ==
  \E p \in dfIssues :
    /\ p.type = "hello interval mismatch"
    /\ p.interface = None /\ p.expected_hello = None
    /\ FixCommands([category |-> "ospf", device |-> dfDevice, problem |-> p])
         = <<"interface None", "ip ospf hello-interval 10",
             "ip ospf dead-interval 40", "end">>
\* A K-value Problem of parse_eigrp_debug: no expected K-values
C34_KValueProblemFromDebug ==
  \E p \in dfIssues :
    /\ p.type = "k-value mismatch"
    /\ p.expected = None
    /\ FixCommands([category |-> "eigrp", device |-> dfDevice, problem |-> p])
         = <<"router eigrp 1", "metric weights 0 1 0 1 0 0", "end">>

\* ------------------------------------------------------------- claim C35
\* Objects of the process that the worker at this position is about to read
\* and write without holding the lock.  scan_device / scan_single_device
\* call self.get_router_type, which looks the device up in
\* self.router_type_cache and stores the result there; the refactored
\* interface checks ask the module's one ConfigManager, whose first lookup
\* fills its baseline_cache.
SharedOutsideLock(w) ==
  IF wpc[w] # "scan" THEN {}
  ELSE IF variant = "legacy" THEN {"router_type_cache"}
  ELSE {"router_type_cache", "baseline_cache"}

\* C35: scan workers share no mutable state other than the lock-guarded
\* aggregation map: no worker reads or writes, outside the lock, a variable
\* that another worker can write.
C35_NoSharedStateOutsideLock ==
  \A w, v \in 1..Len(tasks) :
    w # v => SharedOutsideLock(w) \cap SharedOutsideLock(v) = {}
\* While workers run, the aggregation map is written by the holder of the
\* lock only.
C35_AggregationUnderLock ==
  [][(pcMain = "scanning" /\ detected_issues' # detected_issues) =>
       \E w \in 1..Len(tasks) : lock = w /\ wpc[w] = "agg_locked"]_vars

\* ------------------------------------------------------------- claim C36
DebugEnableCommands == {"debug eigrp packets", "debug ip ospf adj"}
\* The disable command was transmitted after the enable command.
DisabledAfterEnable(calls) ==
  \A i \in 1..Len(calls) :
    calls[i] \in DebugEnableCommands =>
      \E j \in (i + 1)..Len(calls) : calls[j] = "no debug all"

\* C36: whenever a collector has transmitted the debug-enable command on a
\* Session it transmits the disable-debug command on that Session before
\* it returns, including when the enable step or the log capture reports a
\* failure.
C36_DebugAlwaysDisabled ==
  cmCall.op = "debug_branch" => DisabledAfterEnable(cmCall.ret.calls)
\* It does when the enable step reports success and no call of
\* disable_debug raises, whether or not the capture failed.
C36_DisabledWhenEnableSucceeds ==
  (/\ cmCall.op = "debug_branch"
   /\ cmCall.ret.enabled
   /\ \A k \in cmCall.faulty :
        k <= Len(enable_debug_calls(1)) + Len(gather_debug_calls))
    => DisabledAfterEnable(cmCall.ret.calls)
\* The capture failed and debug was disabled.
C36_DisabledAfterFailedCapture ==
  /\ cmCall.op = "debug_branch"
  /\ cmCall.ret.enabled /\ ~cmCall.ret.captured
  /\ cmCall.ret.calls[Len(cmCall.ret.calls) - 1] = "no debug all"
\* The enable command was transmitted, the enable step reported a failure.
C36_EnabledAndLeftOn ==
  /\ cmCall.op = "debug_branch"
  /\ ~cmCall.ret.enabled
  /\ \E i \in 1..Len(cmCall.ret.calls) :
       cmCall.ret.calls[i] \in DebugEnableCommands

\* ------------------------------------------------------------- claim C37
\* A status query, the pager setting, or a debug toggle.
DetectionCommand(cmd) ==
  \/ HasPrefix(cmd, "show ")
  \/ cmd = "terminal length 0"
  \/ cmd \in {"debug eigrp packets", "debug ip ospf adj", "no debug all"}
Written(log) == {log[i].arg : i \in {j \in 1..Len(log) : log[j].op = "write"}}

\* C37: a detection-only scan (auto_prompt=False) never enters
\* configuration mode and transmits no configuration-mutating command:
\* after its resets it sends only status queries, 'terminal length 0' and
\* the debug toggles.
C37_DetectionOnlyReads ==
  \A cmd \in Written(dfLog) : DetectionCommand(cmd)
\* A scan that found a shut-down interface, read the configuration and
\* toggled debug.
C37_Witness ==
  /\ dfPc = "scanned"
  /\ \E p \in dfIssues : p.category = "interfaces"
  /\ {"terminal length 0", "show ip interface brief", "no debug all"}
       \subseteq Written(dfLog)

\* ------------------------------------------------------------- claim C38
CategoryRank == [interfaces |-> 1, eigrp |-> 2, ospf |-> 3]
\* Place of a handled Problem in the list the scan recorded for its device
\* and category.
DetectionPlace(item) ==
  CHOOSE n \in 1..MaxProblems :
    \E k \in 1..Len(fxIssues[item.category]) :
      LET e == fxIssues[item.category][k] IN
        /\ e.device = item.device
        /\ n <= Len(e.problems)
        /\ e.problems[n] = item.problem

====
